---- MODULE Spec2Model ----
(***************************************************************************)
(* Scheme configuration engine (New_auto_pf_selection.py, with the earlier *)
(* revision Decision.py where the two differ).                             *)
(*                                                                         *)
(* Numbers.  A percentage that the code quantizes to two decimals is held  *)
(* as an integer count of hundredths (9.95 -> 995).  The stated monthly    *)
(* rate is parsed from text and may carry more decimals: it is held as an  *)
(* integer count of 0.00001 (1.25 -> 125000).  An LTV is an integer.       *)
(* Decimal arithmetic at getcontext().prec = 50 is modelled exactly where  *)
(* the 50-digit rounding can change a quantized result (QuantDiv) and by   *)
(* exact rational arithmetic elsewhere.                                    *)
(***************************************************************************)
EXTENDS Integers, Sequences, FiniteSets, TLC

\* session_df  st.session_state.df, the table shown in the editor and offered
\*             for download: [rows, cols]
\* df          the working copy of the Compute handler: [rows, cols]
\* idx         the position of the Compute loop in df (1-based)
\* pc          "idle", "loop" (inside the Compute loop) or "raised" (the
\*             handler ended with an uncaught exception)
\* passes      the number of Compute clicks so far
\* call        the last call of a function of the program on its own:
\*             [fn, ...arguments, result]
VARIABLES session_df, df, idx, pc, passes, call

vars == <<session_df, df, idx, pc, passes, call>>

\* -------------------------------------------------------------------------
\* Arithmetic helpers
\* -------------------------------------------------------------------------

Abs(x) == IF x < 0 THEN -x ELSE x

Sgn(x) == IF x < 0 THEN -1 ELSE IF x > 0 THEN 1 ELSE 0

\* quantize(..., ROUND_HALF_UP) of the rational num/den (den # 0) to an
\* integer: nearest, ties away from zero.
RoundTowardZero(num, den) ==
    LET n == IF den < 0 THEN -num ELSE num
        d == Abs(den)
        r == Abs(n) \div d
    IN  IF n >= 0 THEN r ELSE -r

RoundHalfUp(num, den) ==
    LET n == IF den < 0 THEN -num ELSE num
        d == Abs(den)
        r == (2 * Abs(n) + d) \div (2 * d)
    IN  IF n >= 0 THEN r ELSE -r

RECURSIVE Pow10(_)
Pow10(n) == IF n <= 0 THEN 1 ELSE 10 * Pow10(n - 1)

\* getcontext().prec
PREC == 50

\* Units of the stated monthly rate per hundredth of a percent.
RATE_SCALE == 1000

\* -------------------------------------------------------------------------
\* Constants (lines 16-38)
\* -------------------------------------------------------------------------

SECURE_S1_DELIGHT == 995

SECURE_S2_DELIGHT == 1700

SECURE_S1_ROYAL == 1320

SECURE_S2_ROYAL == 1850

UNSECURE_JSON_6_7 == <<4800, 4800, 4800>>

UNSECURE_JSON_12 == <<3765, 3765, 3765>>

UNSECURE_CALC_6_7 == <<4800, 4600, 4800>>

UNSECURE_CALC_12 == <<3765, 3200, 3765>>

LTV_CODE_MAP == [e0 |-> 80, s5 |-> 75, s7 |-> 77, s6 |-> 76, si5 |-> 65]

GROUP_SCHEME_CODES == {"s2", "s4", "s5", "s7"}

E_SERIES_CODES == {"e0", "e1", "e2", "e4"}

\* -------------------------------------------------------------------------
\* Decision engine (lines 259-293)
\* -------------------------------------------------------------------------

\* monthly_opp is in units of 0.00001; the bands are quantized hundredths.
decision_engine_mut_strict(overall_ltv, monthly_opp, requested_tenure) ==
    LET secure_s1   == 995
        secure_ltv  == IF requested_tenure = 12 THEN 60 ELSE 67
        unsecure_s1 == IF requested_tenure = 12 THEN 3765 ELSE 4800
        royal       == IF requested_tenure \in {6, 7}
                       THEN <<"Royal", 7>>
                       ELSE <<"Royal", requested_tenure>>
    IN  IF overall_ltv <= secure_ltv
        THEN royal
        ELSE LET min_opp == RoundHalfUp(secure_ltv * secure_s1, 12 * overall_ltv)
                 max_opp == RoundHalfUp(secure_ltv * secure_s1
                                          + (overall_ltv - secure_ltv) * unsecure_s1,
                                        12 * overall_ltv)
             IN  IF min_opp * RATE_SCALE <= monthly_opp
                    /\ monthly_opp < max_opp * RATE_SCALE
                 THEN <<"Delight", requested_tenure>>
                 ELSE royal

decision_engine_mut_noNormalize(overall_ltv, monthly_opp, requested_tenure) ==
    LET secure_s1   == 995
        secure_ltv  == IF requested_tenure = 12 THEN 60 ELSE 67
        unsecure_s1 == IF requested_tenure = 12 THEN 3765 ELSE 4800
    IN  IF overall_ltv <= secure_ltv
        THEN IF requested_tenure \in {6, 7}
             THEN <<"Royal", 7>>
             ELSE <<"Royal", requested_tenure>>
        ELSE LET min_opp == RoundHalfUp(secure_ltv * secure_s1, 12 * overall_ltv)
                 max_opp == RoundHalfUp(secure_ltv * secure_s1
                                          + (overall_ltv - secure_ltv) * unsecure_s1,
                                        12 * overall_ltv)
             IN  IF min_opp * RATE_SCALE <= monthly_opp
                    /\ monthly_opp <= max_opp * RATE_SCALE
                 THEN <<"Delight", requested_tenure>>
                 ELSE <<"Royal", requested_tenure>>

decision_engine(overall_ltv, monthly_opp, requested_tenure) ==
    LET secure_s1   == 995
        secure_ltv  == IF requested_tenure = 12 THEN 60 ELSE 67
        unsecure_s1 == IF requested_tenure = 12 THEN 3765 ELSE 4800
    IN  IF overall_ltv <= secure_ltv
        THEN IF requested_tenure \in {6, 7}
             THEN <<"Royal", 7>>
             ELSE <<"Royal", requested_tenure>>
        ELSE \* secure_weight = secure_ltv / overall_ltv,
             \* unsecure_weight = (overall_ltv - secure_ltv) / overall_ltv
             LET min_opp == RoundHalfUp(secure_ltv * secure_s1, 12 * overall_ltv)
                 max_opp == RoundHalfUp(secure_ltv * secure_s1
                                          + (overall_ltv - secure_ltv) * unsecure_s1,
                                        12 * overall_ltv)
             IN  IF min_opp * RATE_SCALE <= monthly_opp
                    /\ monthly_opp <= max_opp * RATE_SCALE
                 THEN <<"Delight", requested_tenure>>
                 ELSE IF requested_tenure \in {6, 7}
                      THEN <<"Royal", 7>>
                      ELSE <<"Royal", requested_tenure>>

\* -------------------------------------------------------------------------
\* Interest engine (lines 299-354)
\* -------------------------------------------------------------------------

\* Exact natural numbers as little-endian sequences of base-10000 limbs, for
\* the compound-interest power of secure_slab3.
LIMB == 10000

RECURSIVE BigNorm(_)
BigNorm(a) ==
    IF Len(a) > 1 /\ a[Len(a)] = 0 THEN BigNorm(SubSeq(a, 1, Len(a) - 1)) ELSE a

RECURSIVE BigMulAcc(_, _, _, _)
BigMulAcc(a, k, i, carry) ==
    IF i > Len(a)
    THEN IF carry = 0 THEN <<>>
         ELSE <<carry % LIMB>> \o BigMulAcc(a, k, i, carry \div LIMB)
    ELSE LET v == a[i] * k + carry
         IN  <<v % LIMB>> \o BigMulAcc(a, k, i + 1, v \div LIMB)

\* a * k for a small factor k (k < 100000)
BigMulSmall(a, k) == BigNorm(BigMulAcc(a, k, 1, 0) \o <<0>>)

RECURSIVE BigSubAcc(_, _, _, _)
BigSubAcc(a, b, i, borrow) ==
    IF i > Len(a) THEN <<>>
    ELSE LET bi == IF i <= Len(b) THEN b[i] ELSE 0
             v  == a[i] - bi - borrow
         IN  IF v < 0
             THEN <<v + LIMB>> \o BigSubAcc(a, b, i + 1, 1)
             ELSE <<v>> \o BigSubAcc(a, b, i + 1, 0)

\* a - b for a >= b
BigSub(a, b) == BigNorm(BigSubAcc(a, b, 1, 0))

RECURSIVE BigLeqFrom(_, _, _)
BigLeqFrom(a, b, i) ==
    IF i = 0 THEN TRUE
    ELSE IF a[i] # b[i] THEN a[i] < b[i]
    ELSE BigLeqFrom(a, b, i - 1)

\* a <= b (both normalised)
BigLeq(a, b) ==
    IF Len(a) # Len(b) THEN Len(a) < Len(b) ELSE BigLeqFrom(a, b, Len(a))

RECURSIVE BigPow(_, _)
BigPow(k, t) ==
    IF t = 0 THEN <<1>>
    ELSE LET p == BigPow(k, t - 1)
         IN  IF Len(p) > 0 THEN BigMulSmall(p, k) ELSE <<>>

\* The largest q in lo..hi with (2q - 1) * m <= n, by bisection.
RECURSIVE BigRoundQuot(_, _, _, _)
BigRoundQuot(n, m, lo, hi) ==
    IF lo = hi THEN lo
    ELSE LET mid == (lo + hi + 1) \div 2
         IN  IF BigLeq(BigMulSmall(m, 2 * mid - 1), n)
             THEN BigRoundQuot(n, m, mid, hi)
             ELSE BigRoundQuot(n, m, lo, mid - 1)

\* ((1 + r/m)^t - 1) * m / t * 100 with r = 0.229, m = 12, quantized half-up
\* to hundredths: 1 + r/m = 12229/12000, so the value in hundredths is
\* (12229^t - 12000^t) * 120000 / (12000^t * t).
secure_slab3_calc(tenure) ==
    LET a == BigPow(12229, tenure)
        b == BigPow(12000, tenure)
        n == BigMulSmall(BigMulSmall(BigSub(a, b), 240), 1000)
        m == BigMulSmall(b, tenure)
    IN  BigRoundQuot(n, m, 0, 9999)

\* The final terms the model's inputs can produce.
SlabTerms == {3, 6, 7, 9, 12}

secure_slab3_table == [t \in SlabTerms |-> secure_slab3_calc(t)]

secure_slab3(tenure) == secure_slab3_table[tenure]

interest_engine_mut_display(scheme, tenure, overall_ltv, monthly_opp) ==
    LET secure_s1 == IF scheme = "Delight" THEN SECURE_S1_DELIGHT ELSE SECURE_S1_ROYAL
        secure_s2 == IF scheme = "Delight" THEN SECURE_S2_DELIGHT ELSE SECURE_S2_ROYAL
        secure_ltv == IF tenure = 6 THEN 67 ELSE IF tenure = 7 THEN 66 ELSE 60
        secure_s3 == secure_slab3(tenure)
        calc_unsecure == IF tenure = 12 THEN UNSECURE_CALC_12 ELSE UNSECURE_CALC_6_7
        json_unsecure == IF tenure = 12 THEN UNSECURE_JSON_12 ELSE UNSECURE_JSON_6_7
        s1 == RoundHalfUp(monthly_opp * 12, RATE_SCALE)
        s2 == RoundHalfUp(secure_ltv * secure_s2
                            + (overall_ltv - secure_ltv) * json_unsecure[2],
                          overall_ltv)
        s3 == RoundHalfUp(secure_ltv * secure_s3
                            + (overall_ltv - secure_ltv) * json_unsecure[3],
                          overall_ltv)
    IN  [secure_slabs        |-> <<secure_s1, secure_s2, secure_s3>>,
         unsecure_slabs      |-> json_unsecure,
         overall_slabs       |-> <<s1, s2, s3>>,
         secure_ltv          |-> secure_ltv,
         calc_unsecure_slabs |-> calc_unsecure]

interest_engine_mut_basis(scheme, tenure, overall_ltv, monthly_opp) ==
    LET secure_s1 == IF scheme = "Delight" THEN SECURE_S1_DELIGHT ELSE SECURE_S1_ROYAL
        secure_s2 == IF scheme = "Delight" THEN SECURE_S2_DELIGHT ELSE SECURE_S2_ROYAL
        secure_ltv == IF tenure # 12 THEN 67 ELSE 60
        secure_s3 == secure_slab3(tenure)
        calc_unsecure == IF tenure = 12 THEN UNSECURE_CALC_12 ELSE UNSECURE_CALC_6_7
        json_unsecure == IF tenure = 12 THEN UNSECURE_JSON_12 ELSE UNSECURE_JSON_6_7
        s1 == RoundHalfUp(monthly_opp * 12, RATE_SCALE)
        s2 == RoundHalfUp(secure_ltv * secure_s2
                            + (overall_ltv - secure_ltv) * calc_unsecure[2],
                          overall_ltv)
        s3 == RoundHalfUp(secure_ltv * secure_s3
                            + (overall_ltv - secure_ltv) * calc_unsecure[3],
                          overall_ltv)
    IN  [secure_slabs        |-> <<secure_s1, secure_s2, secure_s3>>,
         unsecure_slabs      |-> json_unsecure,
         overall_slabs       |-> <<s1, s2, s3>>,
         secure_ltv          |-> secure_ltv,
         calc_unsecure_slabs |-> calc_unsecure]

\* secure_weight = secure_ltv / overall_ltv and unsecure_weight =
\* (overall_ltv - secure_ltv) / overall_ltv, so each weighted sum is the
\* rational (secure_ltv * a + (overall_ltv - secure_ltv) * b) / overall_ltv.
interest_engine(scheme, tenure, overall_ltv, monthly_opp) ==
    LET secure_s1 == IF scheme = "Delight" THEN SECURE_S1_DELIGHT ELSE SECURE_S1_ROYAL
        secure_s2 == IF scheme = "Delight" THEN SECURE_S2_DELIGHT ELSE SECURE_S2_ROYAL
        secure_ltv == IF tenure = 6 THEN 67 ELSE IF tenure = 7 THEN 66 ELSE 60
        secure_s3 == secure_slab3(tenure)
        calc_unsecure == IF tenure = 12 THEN UNSECURE_CALC_12 ELSE UNSECURE_CALC_6_7
        json_unsecure == IF tenure = 12 THEN UNSECURE_JSON_12 ELSE UNSECURE_JSON_6_7
        s1 == RoundHalfUp(monthly_opp * 12, RATE_SCALE)
        s2 == RoundHalfUp(secure_ltv * secure_s2
                            + (overall_ltv - secure_ltv) * calc_unsecure[2],
                          overall_ltv)
        s3 == RoundHalfUp(secure_ltv * secure_s3
                            + (overall_ltv - secure_ltv) * calc_unsecure[3],
                          overall_ltv)
    IN  [secure_slabs        |-> <<secure_s1, secure_s2, secure_s3>>,
         unsecure_slabs      |-> json_unsecure,
         overall_slabs       |-> <<s1, s2, s3>>,
         secure_ltv          |-> secure_ltv,
         calc_unsecure_slabs |-> calc_unsecure]

\* -------------------------------------------------------------------------
\* Decimal division at 50 significant digits (lines 7, 631, 665-666, 695)
\* -------------------------------------------------------------------------

\* Long division of b by l: after the quotient's first PREC significant
\* digits, the remainder r, the count nd of decimals produced and the last
\* digit produced.  sig counts significant digits so far.
\* 10^k mod l, by repeated squaring
RECURSIVE PowMod(_, _)
PowMod(k, l) ==
    IF k = 0 THEN 1 % l
    ELSE LET h == PowMod(k \div 2, l)
             h2 == (h * h) % l
         IN  IF k % 2 = 0 THEN h2 ELSE (h2 * 10) % l

\* the zero digits that open the expansion of r/l, 0 < r < l
RECURSIVE LeadingZeros(_, _)
LeadingZeros(r, l) == IF r = 0 \/ r * 10 >= l THEN 0 ELSE 1 + LeadingZeros(r * 10, l)

\* The long division of r by l carried on until PREC significant digits are
\* out, sig of them being out already with last the latest: the remainder
\* left, the number nd of digits produced and the last digit.
DivDigits(r, l, sig, last) ==
    LET nd == IF sig > 0 THEN PREC - sig ELSE PREC + LeadingZeros(r, l)
    IN  [r    |-> (r * PowMod(nd, l)) % l,
         nd   |-> nd,
         last |-> IF nd = 0 THEN last
                  ELSE (((r * PowMod(nd - 1, l)) % l) * 10) \div l]

RECURSIVE NumDigits(_)
NumDigits(q) == IF q = 0 THEN 0 ELSE 1 + NumDigits(q \div 10)

\* Decimal(b) / Decimal(l) rounded half-even to PREC digits equals
\* b/l + (e/l) * 10^-nd; DivErr gives e and nd.
DivErr(b, l) ==
    LET q  == b \div l
        dd == DivDigits(b % l, l, NumDigits(q), q % 10)
        e  == IF 2 * dd.r < l THEN -dd.r
              ELSE IF 2 * dd.r > l THEN l - dd.r
              ELSE IF dd.last % 2 = 0 THEN -dd.r ELSE l - dd.r
    IN  [e |-> e, nd |-> dd.nd]

\* floor(log10(|T|)) for |T| = q2 / 200 (q2 = 2|Q|, Q in hundredths)
RECURSIVE TieExp(_, _)
TieExp(q2, k) == IF q2 >= 2 * Pow10(k + 3) THEN TieExp(q2, k + 1) ELSE k

\* (Decimal(p)/(100 s) / (1 - Decimal(b)/Decimal(l))).quantize(0.00,
\* ROUND_HALF_UP) in hundredths, for p >= 0 counted in 1/s of a hundredth and
\* b # l.  The subtraction is exact; the divisor carries the rounding error
\* of b/l, the quotient is rounded half-even to PREC digits and then
\* quantized.  Unless the exact quotient Q = p*l/(s*(l-b)) is a tie between
\* two hundredths the result is the exact half-up rounding; on a tie the
\* divisor's error decides the side whenever it moves the 50-digit quotient
\* off the tie.
QuantDivExact(p, s, b, l) == RoundHalfUp(p * l, (l - b) * s)

QuantDiv(p, s, b, l) ==
    LET D     == l - b
        num   == p * l
        err   == DivErr(b, l)
        e     == err.e
        exact == RoundHalfUp(num, D * s)
        q2    == (2 * num) \div (Abs(D) * s)
        tie   == (2 * num) % (Abs(D) * s) = 0 /\ q2 % 2 = 1
    IN  IF p = 0 \/ e = 0 \/ ~tie
        THEN exact
        ELSE LET k     == TieExp(q2, -2)
                 \* compare |T| |e| 10^-nd / |D| with half a unit in the
                 \* 50th digit of T, 10^(k-49) / 2
                 m     == err.nd - 47 + k
                 lhs   == q2 * Abs(e) * Pow10(-m)
                 rhs   == Abs(D) * Pow10(m)
                 pos   == D > 0
                 moved == IF lhs < rhs THEN FALSE
                          ELSE IF lhs > rhs THEN TRUE
                          ELSE pos = (e > 0)
                 lo    == (q2 - 1) \div 2
             IN  IF ~moved THEN exact
                 ELSE IF pos
                      THEN IF e > 0 THEN lo + 1 ELSE lo
                      ELSE IF e > 0 THEN -lo ELSE -(lo + 1)

\* -------------------------------------------------------------------------
\* Text.  A text is the sequence of its lexemes (strings); the text itself is
\* their concatenation.  A lexeme is a space, a punctuation mark, a run of
\* digits, a word, or a code (letters then digits).  Inputs are lexed so that
\* a word or code lexeme abuts another alphanumeric lexeme only as a number
\* followed by its unit ("6" "M", "3" "L", "90" "D").  The en and em dashes
\* are written "ndash" and "mdash".
\* -------------------------------------------------------------------------

SPACE == " "

PunctLex == {"(", ")", "-", "ndash", "mdash", ":", "%", "<", ">", "+", "/", ".", ","}

\* The largest integer written as a digit run in the texts considered.
MaxDigitRun == 999

RECURSIVE CountDigits(_)
CountDigits(n) == IF n < 10 THEN 1 ELSE 1 + CountDigits(n \div 10)

\* str(n)
IntLex(n) == ToString(n)

\* the two decimals of a quantized value: "00" .. "99"
Pad2(f) == IF f < 10 THEN "0" \o ToString(f) ELSE ToString(f)

RECURSIVE DigitTable(_, _)
DigitTable(lo, hi) ==
    IF lo = hi THEN IntLex(lo) :> <<lo, CountDigits(lo)>>
    ELSE LET mid == (lo + hi) \div 2
         IN  DigitTable(lo, mid) @@ DigitTable(mid + 1, hi)

\* digit runs: lexeme |-> <<value, number of digits>>; the runs with leading
\* zeros are the two-digit decimals and "00125"
DigitLex ==
    DigitTable(0, MaxDigitRun)
      @@ [x \in {Pad2(f) : f \in 0..9} |-> <<CHOOSE f \in 0..9 : Pad2(f) = x, 2>>]
      @@ ("00125" :> <<125, 5>>)

DigitRuns == DOMAIN DigitLex

IsDigits(x) == x \in DigitRuns

\* str.lower() of a lexeme
UpperLex ==
    [x \in {"PF", "M", "L", "D", "FC", "FL", "TO", "S5", "E0", "Renewal", "Fresh",
            "Economy", "Silver", "FlexiPF", "flexiPF"} |->
        CASE x = "PF" -> "pf" [] x = "M" -> "m" [] x = "L" -> "l" [] x = "D" -> "d"
          [] x = "FC" -> "fc" [] x = "FL" -> "fl" [] x = "TO" -> "to"
          [] x = "S5" -> "s5" [] x = "E0" -> "e0" [] x = "Renewal" -> "renewal"
          [] x = "Fresh" -> "fresh" [] x = "Economy" -> "economy"
          [] x = "Silver" -> "silver" [] x = "FlexiPF" -> "flexipf"
          [] x = "flexiPF" -> "flexipf"]

Lower(x) == IF x \in DOMAIN UpperLex THEN UpperLex[x] ELSE x

\* \w: the lexeme is made of word characters
IsWordLex(x) == x # SPACE /\ x \notin PunctLex

\* \b before / after position i of text t (i holds a word lexeme)
BoundaryBefore(t, i) == i = 1 \/ ~IsWordLex(t[i - 1])

BoundaryAfter(t, i) == i = Len(t) \/ ~IsWordLex(t[i + 1])

\* \s* from position i: the first position that holds no space
RECURSIVE SkipSpaces(_, _)
SkipSpaces(t, i) ==
    IF i <= Len(t) /\ t[i] = SPACE THEN SkipSpaces(t, i + 1) ELSE i

At(t, i) == IF 1 <= i /\ i <= Len(t) THEN t[i] ELSE "<end>"

\* The least member of a set of positions, 0 when there is none: where
\* re.search finds its first match.
FirstOf(S) == IF S = {} THEN 0 ELSE CHOOSE i \in S : \A j \in S : i <= j

\* ---- extract_tenure / update_refname_tenure (lines 61-63, 115-116) ----

\* \b(\d{1,2})\s*M\b matched at position i: the position of the M, or 0.
TenureMatchAt(t, i) ==
    IF IsDigits(t[i]) /\ DigitLex[t[i]][2] <= 2 /\ BoundaryBefore(t, i)
    THEN LET j == SkipSpaces(t, i + 1)
         IN  IF Lower(At(t, j)) = "m" /\ BoundaryAfter(t, j) THEN j ELSE 0
    ELSE 0

TenureMatchStart(t) ==
    FirstOf({i \in 1..Len(t) : TenureMatchAt(t, i) # 0})

NONE == "None"

\* None is the string NONE; a found tenure is its integer value.
HasTenure(t) == TenureMatchStart(t) # 0

extract_tenure(t) == DigitLex[t[TenureMatchStart(t)]][1]

update_refname_tenure_mut_append(t, tenure) ==
    t \o <<SPACE, IntLex(tenure), "M">>

update_refname_tenure(t, tenure) ==
    LET i == TenureMatchStart(t)
    IN  IF i = 0 THEN t
        ELSE SubSeq(t, 1, i - 1) \o <<IntLex(tenure), "M">>
             \o SubSeq(t, TenureMatchAt(t, i) + 1, Len(t))

\* ---- numbers in text ----

\* The digits a regex [0-9]+ can start on inside lexeme x: x itself for a
\* digit run, the trailing digits of a code.
CodeDigits ==
    [x \in {"e0", "e1", "e2", "e4", "s2", "s4", "s5", "s6", "s7", "s9", "si5", "f8",
            "th7"} |->
        CASE x = "e0" -> "0" [] x = "e1" -> "1" [] x = "e2" -> "2" [] x = "e4" -> "4"
          [] x = "s2" -> "2" [] x = "s4" -> "4" [] x = "s5" -> "5" [] x = "s6" -> "6"
          [] x = "s7" -> "7" [] x = "s9" -> "9" [] x = "si5" -> "5" [] x = "f8" -> "8"
          [] x = "th7" -> "7"]

IsCode(x) == x \in DOMAIN CodeDigits

\* Decimal(int "." frac) in units of 0.00001; frac = "" when absent
DecimalValue(int, frac) ==
    DigitLex[int][1] * 100000
      + (IF frac = "" THEN 0
         ELSE DigitLex[frac][1] * Pow10(5 - DigitLex[frac][2]))

\* [0-9]+(?:\.[0-9]+)? started at position i and followed by `tail`, which
\* is "%" (no space allowed) or "s%" (\s*%): [ok, val, next], next the
\* position after the %.
NumberPercentAt(t, i, tail) ==
    LET x    == Lower(At(t, i))
        head == IF IsDigits(x) THEN x
                ELSE IF IsCode(x) /\ CodeDigits[x] \in DOMAIN DigitLex
                     THEN CodeDigits[x] ELSE ""
        withFrac == At(t, i + 1) = "." /\ IsDigits(At(t, i + 2))
        afterF == IF tail = "s%" THEN SkipSpaces(t, i + 3) ELSE i + 3
        afterI == IF tail = "s%" THEN SkipSpaces(t, i + 1) ELSE i + 1
    IN  IF head = "" THEN [ok |-> FALSE, val |-> 0, next |-> 0]
        ELSE IF withFrac /\ At(t, afterF) = "%"
             THEN [ok |-> TRUE, val |-> DecimalValue(head, t[i + 2]), next |-> afterF + 1]
        ELSE IF At(t, afterI) = "%"
             THEN [ok |-> TRUE, val |-> DecimalValue(head, ""), next |-> afterI + 1]
        ELSE [ok |-> FALSE, val |-> 0, next |-> 0]

\* re.findall(number tail, t[from..to]): the values, in order.
RECURSIVE FindPercents(_, _, _, _)
FindPercents(t, from, to, tail) ==
    IF from > to THEN <<>>
    ELSE LET m == NumberPercentAt(t, from, tail)
         IN  IF m.ok /\ m.next - 1 <= to
             THEN <<m.val>> \o FindPercents(t, m.next, to, tail)
             ELSE FindPercents(t, from + 1, to, tail)

\* The positions of the lexemes that end in "pf" (case-insensitive): the
\* places where re.split(r'PF') cuts and where a pattern PF... can start.
EndsWithPf(x) == Lower(x) \in {"pf", "flexipf"}

RECURSIVE PfPositions(_, _)
PfPositions(t, i) ==
    IF i > Len(t) THEN <<>>
    ELSE IF EndsWithPf(t[i]) THEN <<i>> \o PfPositions(t, i + 1)
    ELSE PfPositions(t, i + 1)

\* ---- extract_opp (lines 110-113) ----

OppPercents(t) ==
    LET pf  == PfPositions(t, 1)
        end == IF pf = <<>> THEN Len(t) ELSE pf[1] - 1
    IN  FindPercents(t, 1, end, "%")

HasOpp(t) == OppPercents(t) # <<>>

extract_opp(t) == OppPercents(t)[1]

\* ---- extract_pf_range / extract_pf / is_flexi_pf_refname (lines 65-108) ----

\* PF\s*[-:]?\s*(number)\s*% matched with the PF at position i:
\* [ok, val, next].
PfSingleAt(t, i) ==
    LET a == SkipSpaces(t, i + 1)
        b == IF At(t, a) \in {"-", ":"} THEN SkipSpaces(t, a + 1) ELSE a
    IN  NumberPercentAt(t, b, "s%")

\* the match at position i, no match when there is no such position
MatchIf(i, m) == IF i = 0 THEN [ok |-> FALSE, val |-> 0, min |-> 0, max |-> 0] ELSE m

\* The two captured numbers of a range match: m1 the match of PF...number%,
\* dash whether a dash follows it, m2 the match of the second number.
PfRangeJoin(m1, dash, m2) ==
    IF m1.ok /\ dash /\ m2.ok
    THEN [ok |-> TRUE, min |-> m1.val, max |-> m2.val]
    ELSE [ok |-> FALSE, min |-> 0, max |-> 0]

\* ...\s*[dashes]\s*(number) tail, with c the position after the spaces
\* that follow the first number
PfRangeCont(t, m1, c, dashes, tail) ==
    PfRangeJoin(m1, At(t, c) \in dashes,
                NumberPercentAt(t, SkipSpaces(t, c + 1), tail))

PfRangeOf(t, m1, dashes, tail) ==
    PfRangeCont(t, m1, SkipSpaces(t, m1.next), dashes, tail)

\* PF\s*[-:]?\s*(number)\s*%\s*[-–—]\s*(number)\s*% matched with the PF at
\* position i: [ok, min, max].
PfRangeAt(t, i) ==
    PfRangeOf(t, PfSingleAt(t, i), {"-", "ndash", "mdash"}, "s%")

\* pf_split[1]: the text between the first PF and the next one (or the end)
PfSplitOf(t, pf) ==
    IF pf = <<>> THEN [has |-> FALSE, from |-> 0, to |-> 0]
    ELSE [has |-> TRUE, from |-> pf[1] + 1,
          to |-> IF Len(pf) > 1 THEN pf[2] - 1 ELSE Len(t)]

PfSplit1(t) == PfSplitOf(t, PfPositions(t, 1))

\* percentages = re.findall(number\s*%, pf_split[1]) (lines 74-76, 99-101)
PfSplitPercents(t, sp) ==
    IF sp.has THEN FindPercents(t, sp.from, sp.to, "s%") ELSE <<>>

\* the range pattern if it matches at i, else the first two percentages
PfRangeResult(m, percs) ==
    IF m.ok THEN [ok |-> TRUE, min |-> m.min, max |-> m.max]
    ELSE IF Len(percs) >= 2 THEN [ok |-> TRUE, min |-> percs[1], max |-> percs[2]]
    ELSE [ok |-> FALSE, min |-> 0, max |-> 0]

\* the single pattern if it matches, else the first percentage
PfSingleResult(m, percs) ==
    IF m.ok THEN [ok |-> TRUE, val |-> m.val]
    ELSE IF Len(percs) >= 1 THEN [ok |-> TRUE, val |-> percs[1]]
    ELSE [ok |-> FALSE, val |-> 0]

\* [ok, min, max]; ok = FALSE is (None, None).  Values in units of 0.00001.
PfRangeStart(t) == FirstOf({i \in 1..Len(t) : EndsWithPf(t[i]) /\ PfRangeAt(t, i).ok})

PfSingleStart(t) == FirstOf({i \in 1..Len(t) : EndsWithPf(t[i]) /\ PfSingleAt(t, i).ok})

PfRangeFirst(t, i) == MatchIf(i, PfRangeAt(t, i))

PfSingleFirst(t, i) == MatchIf(i, PfSingleAt(t, i))

extract_pf_range(t) ==
    PfRangeResult(PfRangeFirst(t, PfRangeStart(t)), PfSplitPercents(t, PfSplit1(t)))

\* [ok, val]; ok = FALSE is None.
extract_pf(t) ==
    PfSingleResult(PfSingleFirst(t, PfSingleStart(t)), PfSplitPercents(t, PfSplit1(t)))

\* pf_min is not None and pf_max is not None and pf_min != pf_max
RangeIsFlexi(r) == r.ok /\ r.min # r.max

is_flexi_pf_refname(t) == RangeIsFlexi(extract_pf_range(t))

\* bool(re.search(r'\bPF\b', refname, re.IGNORECASE))  (line 571)
has_pf_in_name(t) ==
    \E i \in 1..Len(t) :
        Lower(t[i]) = "pf" /\ BoundaryBefore(t, i) /\ BoundaryAfter(t, i)

\* any(token in refname_lower for token in ["flexipf", "flexi pf", "flexi-pf"])
\* (line 669)
has_flexi_token(t) ==
    \E i \in 1..Len(t) :
        \/ Lower(t[i]) = "flexipf"
        \/ /\ Lower(t[i]) = "flexi"
           /\ At(t, i + 1) \in {SPACE, "-"}
           /\ Lower(At(t, i + 2)) = "pf"

\* ---- tokens and bracket segments (lines 47-57, 125-135) ----

\* re.split(r'[^a-z0-9]+', ...): the maximal alphanumeric runs of
\* t[from..to], lowercased.  A run of one lexeme is that lexeme; a longer
\* run (a number glued to its unit) is the token "<glued>", which is no code.
RECURSIVE TokensOf(_, _, _)
TokensOf(t, from, to) ==
    IF from > to THEN <<>>
    ELSE IF ~IsWordLex(t[from]) THEN TokensOf(t, from + 1, to)
    ELSE LET stop == FirstOf({i \in from..to : ~IsWordLex(t[i])})
             end  == IF stop = 0 THEN to ELSE stop - 1
         IN  <<IF end = from THEN Lower(t[from]) ELSE "<glued>">>
             \o TokensOf(t, end + 1, to)

\* re.findall(r'\((.*?)\)', ...): the tokens of every bracket segment, in
\* order, each "(" paired with the next ")".
RECURSIVE BracketTokens(_, _)
BracketTokens(t, from) ==
    LET open  == FirstOf({i \in from..Len(t) : t[i] = "("})
        close == IF open = 0 THEN 0 ELSE FirstOf({i \in (open + 1)..Len(t) : t[i] = ")"})
    IN  IF open = 0 \/ close = 0 THEN <<>>
        ELSE TokensOf(t, open + 1, close - 1) \o BracketTokens(t, close + 1)

\* The tokens in the order the extractors try them: bracket segments first,
\* then the whole text.
CandidateTokens(t) == BracketTokens(t, 1) \o TokensOf(t, 1, Len(t))

\* ---- extract_ltv_from_code (lines 44-59) ----

LtvTokenIndex(t) ==
    LET c == CandidateTokens(t)
    IN  FirstOf({k \in 1..Len(c) : c[k] \in DOMAIN LTV_CODE_MAP})

HasLtv(t) == LtvTokenIndex(t) # 0

extract_ltv_from_code(t) == LTV_CODE_MAP[CandidateTokens(t)[LtvTokenIndex(t)]]

\* ---- extract_scheme_code (lines 123-136) ----

\* re.fullmatch(r'[se]\d+', token)
IsSchemeToken(x) ==
    x \in {"e0", "e1", "e2", "e4", "s2", "s4", "s5", "s6", "s7", "s9"}

extract_scheme_code_mut_noBracket(t) ==
    LET c == TokensOf(t, 1, Len(t))
        i == FirstOf({k \in 1..Len(c) : IsSchemeToken(c[k])})
    IN  IF i = 0 THEN NONE ELSE c[i]

extract_scheme_code(t) ==
    LET c == CandidateTokens(t)
        i == FirstOf({k \in 1..Len(c) : IsSchemeToken(c[k])})
    IN  IF i = 0 THEN NONE ELSE c[i]

\* ---- extract_variant (lines 139-145) ----

ContainsLex(t, S) == \E i \in 1..Len(t) : Lower(t[i]) \in S

extract_variant(t) ==
    IF ContainsLex(t, {"economy"}) THEN "economy"
    ELSE IF ContainsLex(t, {"silver"}) THEN "silver"
    ELSE NONE

\* ---- extract_ts_bucket (lines 148-165) ----

\* Lexeme x ends with the digits d: x is d, or a longer digit run or a code
\* whose last digits are d.
DigitSuffixes ==
    {<<"00", "0">>, <<"20", "0">>, <<"50", "0">>, <<"70", "0">>, <<"90", "0">>,
     <<"120", "0">>, <<"e0", "0">>, <<"s6", "6">>}

EndsWithDigits(x, d) == Lower(x) = d \/ <<Lower(x), d>> \in DigitSuffixes

StartsWithL(x) == Lower(x) = "l"

\* d \s* l  with the digits exactly d, starting at position i
DigitsThenL(t, i, d) ==
    At(t, i) = d /\ StartsWithL(At(t, SkipSpaces(t, i + 1)))

\* a \s* [-–] \s* b \s* l  starting at position i
RangeThenL(t, i, a, b) ==
    LET j == SkipSpaces(t, i + 1)
    IN  /\ EndsWithDigits(At(t, i), a)
        /\ At(t, j) \in {"-", "ndash"}
        /\ DigitsThenL(t, SkipSpaces(t, j + 1), b)

\* sign \s* d \s* l  starting at position i
SignThenL(t, i, sign, d) ==
    At(t, i) = sign /\ DigitsThenL(t, SkipSpaces(t, i + 1), d)

\* 12 \s* l \s* \+  starting at position i
TwelveLPlus(t, i) ==
    LET j == SkipSpaces(t, i + 1)
    IN  /\ EndsWithDigits(At(t, i), "12")
        /\ Lower(At(t, j)) = "l"
        /\ At(t, SkipSpaces(t, j + 1)) = "+"

extract_ts_bucket_mut_default(t) ==
    IF \E i \in 1..Len(t) :
          SignThenL(t, i, "<", "3") \/ RangeThenL(t, i, "0", "3")
            \/ RangeThenL(t, i, "3", "6")
    THEN "<6L"
    ELSE IF \E i \in 1..Len(t) :
          RangeThenL(t, i, "6", "12") \/ RangeThenL(t, i, "12", "25")
            \/ TwelveLPlus(t, i) \/ SignThenL(t, i, ">", "12")
    THEN ">6L"
    ELSE IF \E i \in 1..Len(t) :
          SignThenL(t, i, "<", "5") \/ SignThenL(t, i, "<", "6")
    THEN "<6L"
    ELSE IF \E i \in 1..Len(t) :
          SignThenL(t, i, ">", "5") \/ SignThenL(t, i, ">", "6")
    THEN ">6L"
    ELSE "<6L"

extract_ts_bucket(t) ==
    IF \E i \in 1..Len(t) :
          SignThenL(t, i, "<", "3") \/ RangeThenL(t, i, "0", "3")
            \/ RangeThenL(t, i, "3", "6")
    THEN "<6L"
    ELSE IF \E i \in 1..Len(t) :
          RangeThenL(t, i, "6", "12") \/ RangeThenL(t, i, "12", "25")
            \/ TwelveLPlus(t, i) \/ SignThenL(t, i, ">", "12")
    THEN ">6L"
    ELSE IF \E i \in 1..Len(t) :
          SignThenL(t, i, "<", "5") \/ SignThenL(t, i, "<", "6")
    THEN "<6L"
    ELSE IF \E i \in 1..Len(t) :
          SignThenL(t, i, ">", "5") \/ SignThenL(t, i, ">", "6")
    THEN ">6L"
    ELSE ">6L"

\* ---- keywords (lines 168-216) ----

\* \bfl\s*[-/ ]*to\b at position i
RECURSIVE SkipSeparators(_, _)
SkipSeparators(t, i) ==
    IF i <= Len(t) /\ t[i] \in {SPACE, "-", "/"} THEN SkipSeparators(t, i + 1) ELSE i

FlToAt(t, i) ==
    LET j == SkipSeparators(t, i + 1)
    IN  /\ Lower(t[i]) = "fl" /\ BoundaryBefore(t, i)
        /\ Lower(At(t, j)) = "to" /\ BoundaryAfter(t, j)

WordAt(t, i, w) == Lower(t[i]) = w /\ BoundaryBefore(t, i) /\ BoundaryAfter(t, i)

\* \btake\s*[- ]?over\b at position i
TakeOverAt(t, i) ==
    LET a == SkipSpaces(t, i + 1)
        b == IF At(t, a) = "-" THEN a + 1 ELSE a
    IN  /\ Lower(t[i]) = "take" /\ BoundaryBefore(t, i)
        /\ Lower(At(t, b)) = "over" /\ BoundaryAfter(t, b)

\* The pattern of lines 170-177 ends with "|": its last alternative is the
\* empty pattern, which matches every text at position 0.
EmptyAlternative == TRUE

has_fresh_takeover_keywords_mut_named(t) ==
    \E i \in 1..Len(t) :
        \/ FlToAt(t, i)
        \/ WordAt(t, i, "flto")
        \/ WordAt(t, i, "fresh")
        \/ TakeOverAt(t, i)
        \/ WordAt(t, i, "takeover")

has_fresh_takeover_keywords(t) ==
    \/ \E i \in 1..Len(t) :
          \/ FlToAt(t, i)
          \/ WordAt(t, i, "flto")
          \/ WordAt(t, i, "fresh")
          \/ TakeOverAt(t, i)
          \/ WordAt(t, i, "takeover")
    \/ EmptyAlternative

has_renewal_keywords(t) ==
    \E i \in 1..Len(t) : WordAt(t, i, "renewal") \/ WordAt(t, i, "retention")

\* The de-duplication of lines 201-208: first occurrences, in order.
RECURSIVE Dedup(_, _)
Dedup(ps, seen) ==
    IF ps = <<>> THEN <<>>
    ELSE IF Head(ps) \in seen THEN Dedup(Tail(ps), seen)
    ELSE <<Head(ps)>> \o Dedup(Tail(ps), seen \cup {Head(ps)})

Range(f) == {f[i] : i \in DOMAIN f}

extract_applicable_processes_mut_noRelease(t) ==
    LET p1 == IF has_fresh_takeover_keywords(t)
              THEN <<"fresh-loan", "takeover-loan">> ELSE <<>>
        p2 == IF has_renewal_keywords(t) THEN p1 \o <<"renewal">> ELSE p1
        p3 == IF p2 = <<>> THEN <<"fresh-loan">> ELSE p2
    IN  Dedup(p3, {})

extract_applicable_processes(t) ==
    LET p1 == IF has_fresh_takeover_keywords(t)
              THEN <<"fresh-loan", "takeover-loan">> ELSE <<>>
        p2 == IF has_renewal_keywords(t) THEN p1 \o <<"renewal">> ELSE p1
        p3 == IF p2 = <<>> THEN <<"fresh-loan">> ELSE p2
        p4 == IF "release" \notin Range(p3) THEN p3 \o <<"release">> ELSE p3
    IN  Dedup(p4, {})

\* keyword in value (substring tests on the lowercased text)
ContainsFlTo(t) ==
    \E i \in 1..Len(t) :
        Lower(t[i]) = "fl" /\ At(t, i + 1) = SPACE /\ Lower(At(t, i + 2)) = "to"

KeywordIn(t, keyword) ==
    CASE keyword = "fl to"    -> ContainsFlTo(t)
      [] keyword = "fresh"    -> ContainsLex(t, {"fresh"})
      [] keyword = "takeover" -> ContainsLex(t, {"takeover"})
      [] keyword = "renewal"  -> ContainsLex(t, {"renewal", "renewals"})

RECURSIVE FirstKeyword(_, _)
FirstKeyword(t, keywords) ==
    IF keywords = <<>> THEN NONE
    ELSE IF KeywordIn(t, Head(keywords)) THEN Head(keywords)
    ELSE FirstKeyword(t, Tail(keywords))

find_refname_keyword_mut_order(t) ==
    FirstKeyword(t, <<"renewal", "fl to", "fresh", "takeover">>)

find_refname_keyword(t) ==
    FirstKeyword(t, <<"fl to", "fresh", "takeover", "renewal">>)

\* ---- get_foreclosure_terms (lines 219-253) ----

\* <<percent in hundredths, duration in months>>
\* the e-series rows keyed by the term bucket as well
get_foreclosure_terms_mut_eTerm(refname, final_tenure) ==
    LET scheme_code   == extract_scheme_code(refname)
        variant       == extract_variant(refname)
        ts_bucket     == extract_ts_bucket(refname)
        tenure_bucket == IF final_tenure = 12 THEN 12
                         ELSE IF final_tenure \in {6, 7} THEN 6
                         ELSE 6
    IN  IF variant = NONE THEN <<100, 3>>
        ELSE IF scheme_code \in GROUP_SCHEME_CODES /\ variant = "economy"
        THEN IF tenure_bucket = 12
             THEN IF ts_bucket = "<6L" THEN <<150, 4>> ELSE <<100, 4>>
             ELSE IF ts_bucket = "<6L" THEN <<150, 3>> ELSE <<100, 3>>
        ELSE IF scheme_code \in GROUP_SCHEME_CODES /\ variant = "silver"
        THEN IF tenure_bucket = 12
             THEN IF ts_bucket = "<6L" THEN <<100, 4>> ELSE <<50, 4>>
             ELSE IF ts_bucket = "<6L" THEN <<100, 3>> ELSE <<50, 3>>
        ELSE IF scheme_code \in E_SERIES_CODES
        THEN IF tenure_bucket = 12
             THEN IF ts_bucket = "<6L" THEN <<150, 4>> ELSE <<100, 4>>
             ELSE IF ts_bucket = "<6L" THEN <<150, 3>> ELSE <<100, 3>>
        ELSE <<100, 3>>

get_foreclosure_terms_mut_duration(refname, final_tenure) ==
    LET scheme_code   == extract_scheme_code(refname)
        variant       == extract_variant(refname)
        ts_bucket     == extract_ts_bucket(refname)
        tenure_bucket == IF final_tenure = 12 THEN 12 ELSE 6
    IN  IF variant = NONE THEN <<100, 3>>
        ELSE IF scheme_code \in GROUP_SCHEME_CODES /\ variant = "economy"
        THEN IF tenure_bucket = 12
             THEN IF ts_bucket = "<6L" THEN <<150, 4>> ELSE <<100, 4>>
             ELSE IF ts_bucket = "<6L" THEN <<150, 3>> ELSE <<100, 3>>
        ELSE IF scheme_code \in GROUP_SCHEME_CODES /\ variant = "silver"
        THEN IF tenure_bucket = 12
             THEN IF ts_bucket = "<6L" THEN <<100, 4>> ELSE <<50, 4>>
             ELSE IF ts_bucket = "<6L" THEN <<100, 3>> ELSE <<50, 3>>
        ELSE IF scheme_code \in E_SERIES_CODES
        THEN IF ts_bucket = "<6L" THEN <<150, 3>> ELSE <<100, 3>>
        ELSE <<100, 2>>

get_foreclosure_terms(refname, final_tenure) ==
    LET scheme_code   == extract_scheme_code(refname)
        variant       == extract_variant(refname)
        ts_bucket     == extract_ts_bucket(refname)
        tenure_bucket == IF final_tenure = 12 THEN 12
                         ELSE IF final_tenure \in {6, 7} THEN 6
                         ELSE 6
    IN  IF variant = NONE THEN <<100, 3>>
        ELSE IF scheme_code \in GROUP_SCHEME_CODES /\ variant = "economy"
        THEN IF tenure_bucket = 12
             THEN IF ts_bucket = "<6L" THEN <<150, 4>> ELSE <<100, 4>>
             ELSE IF ts_bucket = "<6L" THEN <<150, 3>> ELSE <<100, 3>>
        ELSE IF scheme_code \in GROUP_SCHEME_CODES /\ variant = "silver"
        THEN IF tenure_bucket = 12
             THEN IF ts_bucket = "<6L" THEN <<100, 4>> ELSE <<50, 4>>
             ELSE IF ts_bucket = "<6L" THEN <<100, 3>> ELSE <<50, 3>>
        ELSE IF scheme_code \in E_SERIES_CODES
        THEN IF ts_bucket = "<6L" THEN <<150, 3>> ELSE <<100, 3>>
        ELSE <<100, 3>>

\* -------------------------------------------------------------------------
\* Cells and JSON documents.
\*
\* A cell of the table is a record [k, v]:
\*   k = "nan"   a missing cell (pandas NaN)
\*   k = "blank" the empty string or white space
\*   k = "bad"   a text that json.loads rejects (v names it)
\*   k = "json"  a JSON text as uploaded, v its value
\*   k = "dumps" a JSON text exactly as json.dumps writes it, v its value
\*   k = "txt"   a plain text, v its lexemes
\*   k = "num"   a number, v in hundredths
\*   k = "csv"   ",".join(v) of a list of strings
\*   k = "absent" the column is not in the table
\* A JSON value is a record [k, v]:
\*   "obj" v = sequence of <<key, value>> pairs in insertion order
\*   "arr" v = sequence of values       "str" v = string
\*   "num" v = number in hundredths     "pct" v = h, the string "<h/100>%+GST"
\*   "null" and "bool"
\* -------------------------------------------------------------------------

Cell(k, v) == [k |-> k, v |-> v]

JObj(pairs) == [k |-> "obj", v |-> pairs]

JArr(items) == [k |-> "arr", v |-> items]

JNum(h) == [k |-> "num", v |-> h]

JStr(x) == [k |-> "str", v |-> x]

JNull == [k |-> "null", v |-> 0]

IsDict(j) == j.k = "obj"

IsList(j) == j.k = "arr"

\* json.loads(cell) succeeds
Parses(c) == c.k \in {"json", "dumps"}

Dumps(j) == Cell("dumps", j)

KeyIndex(o, key) ==
    FirstOf({i \in 1..Len(o.v) : o.v[i][1] = key})

\* key in o
HasKey(o, key) == KeyIndex(o, key) # 0

\* o[key]
Get(o, key) == o.v[KeyIndex(o, key)][2]

\* o[key] = val
Put(o, key, val) ==
    LET i == KeyIndex(o, key)
    IN  IF i = 0 THEN JObj(Append(o.v, <<key, val>>))
        ELSE JObj([o.v EXCEPT ![i] = <<key, val>>])

\* o.pop(key)
Pop(o, key) ==
    LET i == KeyIndex(o, key)
    IN  IF i = 0 THEN o
        ELSE JObj(SubSeq(o.v, 1, i - 1) \o SubSeq(o.v, i + 1, Len(o.v)))

\* The child of node at position i: a pair's value or a list's item.
Child(node, i) == IF IsDict(node) THEN node.v[i][2] ELSE node.v[i]

RECURSIVE GetAt(_, _)
GetAt(node, path) ==
    IF path = <<>> THEN node ELSE GetAt(Child(node, Head(path)), Tail(path))

RECURSIVE SetAt(_, _, _)
SetAt(node, path, val) ==
    IF path = <<>> THEN val
    ELSE LET i == Head(path)
             sub == SetAt(Child(node, i), Tail(path), val)
         IN  IF IsDict(node)
             THEN JObj([node.v EXCEPT ![i] = <<node.v[i][1], sub>>])
             ELSE JArr([node.v EXCEPT ![i] = sub])

\* ---- _find_slab_list (lines 494-510) ----

NotFound == [found |-> FALSE, path |-> <<>>]

RECURSIVE find_slab_list(_)
RECURSIVE FindInChildren(_, _)

\* the first child of node, from position i on, under which a list is found
FindInChildren(node, i) ==
    IF i > Len(node.v) THEN NotFound
    ELSE LET r == find_slab_list(Child(node, i))
         IN  IF r.found THEN [found |-> TRUE, path |-> <<i>> \o r.path]
             ELSE FindInChildren(node, i + 1)

\* The path of the list the code returns a reference to.
find_slab_list(node) ==
    IF IsDict(node)
    THEN IF HasKey(node, "interestSlabs") /\ IsList(Get(node, "interestSlabs"))
         THEN [found |-> TRUE, path |-> <<KeyIndex(node, "interestSlabs")>>]
         ELSE FindInChildren(node, 1)
    ELSE IF IsList(node)
    THEN IF /\ Len(node.v) >= 3
            /\ \A i \in 1..Len(node.v) : IsDict(node.v[i])
            /\ \E i \in 1..Len(node.v) : HasKey(node.v[i], "interestRate")
         THEN [found |-> TRUE, path |-> <<>>]
         ELSE FindInChildren(node, 1)
    ELSE NotFound

\* ---- update_interest_json (lines 513-537) ----

Min(a, b) == IF a < b THEN a ELSE b

\* Outcome of a document operation: the cell it returns, or an exception.
Returned(c) == [raised |-> FALSE, cell |-> c]

Raised == [raised |-> TRUE, cell |-> Cell("nan", 0)]

\* slab_list[i]["interestRate"] = slabs[i] for i < max_count, then
\* slab_list[-1]["toDay"] = tenure_days when the last item is a dict.
RECURSIVE PatchRates(_, _, _, _)
PatchRates(items, slabs, i, max_count) ==
    IF i > max_count THEN items
    ELSE PatchRates([items EXCEPT ![i] = Put(items[i], "interestRate", JNum(slabs[i]))],
                    slabs, i + 1, max_count)

update_interest_json_mut_allRows(json_str, slabs, tenure_days) ==
    IF ~Parses(json_str) THEN Returned(json_str)
    ELSE LET data == json_str.v
             f    == find_slab_list(data)
             list == IF f.found THEN GetAt(data, f.path) ELSE JArr(<<>>)
         IN  IF f.found /\ list.v # <<>>
             THEN IF \E i \in 1..Len(list.v) : ~IsDict(list.v[i])
                  THEN Raised
                  ELSE Returned(Dumps(SetAt(data, f.path,
                          JArr([i \in 1..Len(list.v) |->
                                 Put(IF Min(i, 3) <= Len(slabs)
                                     THEN Put(list.v[i], "interestRate",
                                              JNum(slabs[Min(i, 3)]))
                                     ELSE list.v[i],
                                     "toDay", JNum(tenure_days * 100))]))))
             ELSE Returned(Dumps(data))

update_interest_json(json_str, slabs, tenure_days) ==
    IF ~Parses(json_str) THEN Returned(json_str)
    ELSE LET data == json_str.v
             f    == find_slab_list(data)
             list == IF f.found THEN GetAt(data, f.path) ELSE JArr(<<>>)
             n    == Len(list.v)
             max_count == Min(3, Min(n, Len(slabs)))
         IN  IF f.found /\ n > 0
             THEN IF \E i \in 1..max_count : ~IsDict(list.v[i])
                  THEN Raised
                  ELSE LET rated == PatchRates(list.v, slabs, 1, max_count)
                           done  == IF IsDict(rated[n])
                                    THEN [rated EXCEPT ![n] =
                                            Put(rated[n], "toDay", JNum(tenure_days * 100))]
                                    ELSE rated
                       IN  Returned(Dumps(SetAt(data, f.path, JArr(done))))
             ELSE IF IsDict(data) /\ HasKey(data, "interestRate") /\ Len(slabs) > 0
             THEN LET d1 == Put(data, "interestRate", JNum(slabs[1]))
                  IN  Returned(Dumps(IF HasKey(d1, "toDay")
                                     THEN Put(d1, "toDay", JNum(tenure_days * 100))
                                     ELSE d1))
             ELSE Returned(Dumps(data))

\* ---- get_tenure_days (lines 118-120) ----

get_tenure_days(tenure) ==
    IF tenure = 6 THEN 180
    ELSE IF tenure = 7 THEN 210
    ELSE IF tenure = 12 THEN 360
    ELSE tenure * 30

\* ---- update_charge_text (lines 356-364) ----

\* data[key] = ... raises TypeError unless data is a dict
update_charge_text(json_str, unsecure_pf, overall_pf) ==
    IF ~Parses(json_str) THEN Returned(json_str)
    ELSE IF ~IsDict(json_str.v) THEN Raised
    ELSE Returned(Dumps(
            Put(Put(Put(json_str.v, "secureProcessingFee", JStr("0%")),
                    "unsecureProcessingFee", [k |-> "pct", v |-> unsecure_pf]),
                "processingFee", [k |-> "pct", v |-> overall_pf])))

\* ---- update_json_applicable_processes (lines 367-375) ----

JStrList(ps) == JArr([i \in 1..Len(ps) |-> JStr(ps[i])])

update_json_applicable_processes(json_str, applicable_processes) ==
    IF ~Parses(json_str) THEN json_str
    ELSE IF IsDict(json_str.v)
    THEN Dumps(Put(json_str.v, "applicableProcesses", JStrList(applicable_processes)))
    ELSE Dumps(json_str.v)

\* ---- update_bs2_charge_2 (lines 377-400) ----

\* update_bs2_charge_2 without the pop of lines 397-398: a metadata object of
\* the input stays in a document that is not flexi
update_bs2_charge_2_mut_keepMeta(json_str, charge_value, backcalc_min, backcalc_max, is_flexi) ==
    LET loaded == IF Parses(json_str) /\ IsDict(json_str.v) THEN json_str.v
                  ELSE JObj(<<>>)
        d1     == Put(loaded, "chargeValue", JNum(charge_value))
    IN  IF is_flexi
        THEN LET meta == IF HasKey(d1, "chargesMetaData")
                            /\ IsDict(Get(d1, "chargesMetaData"))
                         THEN Get(d1, "chargesMetaData") ELSE JObj(<<>>)
             IN  Dumps(Put(d1, "chargesMetaData",
                           Put(Put(meta, "minPercentUnsecure", JNum(backcalc_min)),
                               "maxPercentUnsecure", JNum(backcalc_max))))
        ELSE Dumps(Put(Put(Put(d1, "chargeCalculationType", JStr("fixed-percentage")),
                           "chargeType", JStr("processing-fee")),
                       "percentageOn", JStr("loanamount")))

update_bs2_charge_2(json_str, charge_value, backcalc_min, backcalc_max, is_flexi) ==
    LET loaded == IF Parses(json_str) /\ IsDict(json_str.v) THEN json_str.v
                  ELSE JObj(<<>>)
        d1     == Put(loaded, "chargeValue", JNum(charge_value))
    IN  IF is_flexi
        THEN LET meta == IF HasKey(d1, "chargesMetaData")
                            /\ IsDict(Get(d1, "chargesMetaData"))
                         THEN Get(d1, "chargesMetaData") ELSE JObj(<<>>)
             IN  Dumps(Put(d1, "chargesMetaData",
                           Put(Put(meta, "minPercentUnsecure", JNum(backcalc_min)),
                               "maxPercentUnsecure", JNum(backcalc_max))))
        ELSE Dumps(Pop(Put(Put(Put(d1, "chargeCalculationType", JStr("fixed-percentage")),
                               "chargeType", JStr("processing-fee")),
                           "percentageOn", JStr("loanamount")),
                       "chargesMetaData"))

\* ---- update_foreclosure_charge (lines 403-438) ----

ForeclosureTemplate ==
    JObj(<< <<"name", JStr("Foreclosure")>>,
            <<"chargeType", JStr("foreclosure")>>,
            <<"chargeCalculationType", JStr("fixed-percentage")>>,
            <<"applicableProcesses", JStrList(<<"fresh-loan", "renewal", "release">>)>>,
            <<"chargeValue", JNum(0)>>,
            <<"maxValue", JNum(10000000)>>,
            <<"cityId", JNull>>,
            <<"percentageOn", JStr("loanamount")>>,
            <<"chargesMetaData", JObj(<< <<"duration", JNum(200)>> >>)>>,
            <<"minValue", JNum(99900)>> >>)

\* update_foreclosure_charge with the metadata always built anew: the other
\* keys of a metadata object of the input are lost
update_foreclosure_charge_mut_freshMeta(json_str, foreclosure_unsecure_value, duration_months, applicable_processes) ==
    LET data == IF Parses(json_str) /\ IsDict(json_str.v) THEN json_str.v
                ELSE ForeclosureTemplate
        d1 == Put(data, "name", JStr("Foreclosure"))
        d2 == Put(d1, "chargeType", JStr("foreclosure"))
        d3 == Put(d2, "chargeCalculationType", JStr("fixed-percentage"))
        d4 == Put(d3, "percentageOn", JStr("loanamount"))
        d5 == Put(d4, "maxValue", JNum(10000000))
        d6 == Put(d5, "minValue", JNum(99900))
        d7 == Put(d6, "cityId", JNull)
        d8 == Put(d7, "applicableProcesses", JStrList(applicable_processes))
        d9 == Put(d8, "chargeValue", JNum(foreclosure_unsecure_value))
    IN  Dumps(Put(d9, "chargesMetaData",
                  JObj(<< <<"duration", JNum(duration_months * 100)>> >>)))

update_foreclosure_charge(json_str, foreclosure_unsecure_value, duration_months, applicable_processes) ==
    LET data == IF Parses(json_str) /\ IsDict(json_str.v) THEN json_str.v
                ELSE ForeclosureTemplate
        d1 == Put(data, "name", JStr("Foreclosure"))
        d2 == Put(d1, "chargeType", JStr("foreclosure"))
        d3 == Put(d2, "chargeCalculationType", JStr("fixed-percentage"))
        d4 == Put(d3, "percentageOn", JStr("loanamount"))
        d5 == Put(d4, "maxValue", JNum(10000000))
        d6 == Put(d5, "minValue", JNum(99900))
        d7 == Put(d6, "cityId", JNull)
        d8 == Put(d7, "applicableProcesses", JStrList(applicable_processes))
        d9 == Put(d8, "chargeValue", JNum(foreclosure_unsecure_value))
        meta == IF HasKey(d9, "chargesMetaData") /\ IsDict(Get(d9, "chargesMetaData"))
                THEN Get(d9, "chargesMetaData") ELSE JObj(<<>>)
    IN  Dumps(Put(d9, "chargesMetaData",
                  Put(meta, "duration", JNum(duration_months * 100))))

\* -------------------------------------------------------------------------
\* The display label (bs2-legalName).
\* -------------------------------------------------------------------------

\* str.strip()
RECURSIVE Strip(_)
Strip(t) ==
    IF t = <<>> THEN t
    ELSE IF Head(t) = SPACE THEN Strip(Tail(t))
    ELSE IF t[Len(t)] = SPACE THEN Strip(SubSeq(t, 1, Len(t) - 1))
    ELSE t

\* re.sub(r'\s+', ' ', t)
RECURSIVE SqueezeSpaces(_)
SqueezeSpaces(t) ==
    IF Len(t) < 2 THEN t
    ELSE IF t[1] = SPACE /\ t[2] = SPACE THEN SqueezeSpaces(Tail(t))
    ELSE <<t[1]>> \o SqueezeSpaces(Tail(t))

Collapse(t) == Strip(SqueezeSpaces(t))

\* t with positions i..j replaced by new
ReplaceSpan(t, i, j, new) == SubSeq(t, 1, i - 1) \o new \o SubSeq(t, j + 1, Len(t))

\* str(Decimal) of a value quantized to two decimals
DecimalLexemes(h) ==
    (IF h < 0 THEN <<"-">> ELSE <<>>)
      \o <<IntLex(Abs(h) \div 100), ".", Pad2(Abs(h) % 100)>>

\* ---- update_bs2_legal_name (lines 480-488) ----

\* \b(6M|7M|12M)\b at position i (case-sensitive)
TermTokenAt(t, i) ==
    /\ t[i] \in {"6", "7", "12"}
    /\ BoundaryBefore(t, i)
    /\ At(t, i + 1) = "M"
    /\ BoundaryAfter(t, i + 1)

\* (th7\.si5|f8) at position i: the last position of the match, or 0
EncodingEnd(t, i) ==
    IF t[i] = "f8" THEN i
    ELSE IF t[i] = "th7" /\ At(t, i + 1) = "." /\ At(t, i + 2) = "si5" THEN i + 2
    ELSE 0

\* the digit run x ends with the two digits d
RunEndsWith(x, d) ==
    IsDigits(x) /\ DigitLex[x][2] >= 2 /\ DigitLex[x][1] % 100 = d

\* (48(?:\.00)?%|37\.65%) inside position i: the last position, or 0
RateTokenEnd(t, i) ==
    IF RunEndsWith(t[i], 48) /\ At(t, i + 1) = "." /\ At(t, i + 2) = "00"
       /\ At(t, i + 3) = "%" THEN i + 3
    ELSE IF RunEndsWith(t[i], 48) /\ At(t, i + 1) = "%" THEN i + 1
    ELSE IF RunEndsWith(t[i], 37) /\ At(t, i + 1) = "." /\ At(t, i + 2) = "65"
            /\ At(t, i + 3) = "%" THEN i + 3
    ELSE 0

\* the digits of run x before its last two
RunPrefix(x) ==
    IF DigitLex[x][2] > 2 THEN <<IntLex(DigitLex[x][1] \div 100)>> ELSE <<>>

EncodingLexemes(encoding) ==
    IF encoding = "th7.si5" THEN <<"th7", ".", "si5">> ELSE <<encoding>>

\* str(text) of a cell
CellText(c) ==
    IF c.k = "txt" THEN c.v
    ELSE IF c.k = "nan" THEN <<"nan">>
    ELSE <<>>

update_bs2_legal_name(text, tenure, encoding) ==
    LET it    == FirstOf({k \in 1..Len(text) : TermTokenAt(text, k)})
        updated == IF it = 0 THEN text
                   ELSE ReplaceSpan(text, it, it + 1, <<IntLex(tenure), "M">>)
        ie    == FirstOf({k \in 1..Len(updated) : EncodingEnd(updated, k) # 0})
        ir    == FirstOf({k \in 1..Len(updated) : RateTokenEnd(updated, k) # 0})
    IN  IF ie # 0
        THEN ReplaceSpan(updated, ie, EncodingEnd(updated, ie), EncodingLexemes(encoding))
        ELSE IF ir # 0
        THEN ReplaceSpan(updated, ir, RateTokenEnd(updated, ir),
                         RunPrefix(updated[ir]) \o EncodingLexemes(encoding))
        ELSE updated

\* ---- update_bs2_legal_name_pf_fc (lines 441-478) ----

\* \bFC(?:\s*[-:]?\s*\d+D)?\b at position i: the last position, or 0
FcTokenEnd(t, i) ==
    IF Lower(t[i]) = "fc" /\ BoundaryBefore(t, i)
    THEN LET j1 == SkipSpaces(t, i + 1)
             j2 == IF At(t, j1) \in {"-", ":"} THEN j1 + 1 ELSE j1
             j3 == SkipSpaces(t, j2)
         IN  IF IsDigits(At(t, j3)) /\ Lower(At(t, j3 + 1)) = "d"
                /\ BoundaryAfter(t, j3 + 1)
             THEN j3 + 1
             ELSE IF BoundaryAfter(t, i) THEN i ELSE 0
    ELSE 0

RECURSIVE NormalizeFc(_, _)
NormalizeFc(t, i) ==
    IF i > Len(t) THEN <<>>
    ELSE LET e == FcTokenEnd(t, i)
         IN  IF e # 0 THEN <<"FC">> \o NormalizeFc(t, e + 1)
             ELSE <<t[i]>> \o NormalizeFc(t, i + 1)

\* \s*[-:]?\s*[0-9]+(?:\.[0-9]+)?\s*% after the PF at position i: the
\* position of the %, or 0
PfValueEnd(t, i) ==
    LET j1 == SkipSpaces(t, i + 1)
        j2 == IF At(t, j1) \in {"-", ":"} THEN j1 + 1 ELSE j1
        j3 == SkipSpaces(t, j2)
        kf == SkipSpaces(t, j3 + 3)
        ki == SkipSpaces(t, j3 + 1)
    IN  IF ~IsDigits(At(t, j3)) THEN 0
        ELSE IF At(t, j3 + 1) = "." /\ IsDigits(At(t, j3 + 2)) /\ At(t, kf) = "%" THEN kf
        ELSE IF At(t, ki) = "%" THEN ki
        ELSE 0

\* \bPF ... %\s* at position i: the last position, or 0
PfTokenEnd(t, i) ==
    IF Lower(t[i]) = "pf" /\ BoundaryBefore(t, i) /\ PfValueEnd(t, i) # 0
    THEN SkipSpaces(t, PfValueEnd(t, i) + 1) - 1
    ELSE 0

RECURSIVE RemovePf(_, _)
RemovePf(t, i) ==
    IF i > Len(t) THEN <<>>
    ELSE LET e == PfTokenEnd(t, i)
         IN  IF e # 0 THEN RemovePf(t, e + 1)
             ELSE <<t[i]>> \o RemovePf(t, i + 1)

\* the lexeme x, which ends with PF in any case, with that PF rewritten
PfRewritten(x) ==
    IF Lower(x) = "pf" THEN "PF"
    ELSE IF x = "flexipf" THEN "flexiPF"
    ELSE x

FcWordAt(t, i) == WordAt(t, i, "fc")

HasFc(t) == \E i \in 1..Len(t) : FcWordAt(t, i)

\* re.sub(r'\bFC\b', new, t, count=1)
ReplaceFirstFc(t, new) ==
    LET i == FirstOf({k \in 1..Len(t) : FcWordAt(t, k)})
    IN  IF i = 0 THEN t ELSE ReplaceSpan(t, i, i, new)

\* lines 449-462: the fee token of the label, with ip the position of the
\* first PF that carries a value (0 when there is none)
LegalNamePfAt(updated, pf_str, ip, has_pf_in_refname) ==
    IF ~has_pf_in_refname THEN Collapse(RemovePf(updated, 1))
    ELSE IF ip # 0
    THEN ReplaceSpan(updated, ip, PfValueEnd(updated, ip),
                     <<PfRewritten(updated[ip]), SPACE>> \o pf_str)
    ELSE IF HasFc(updated)
    THEN ReplaceFirstFc(updated, <<"PF", SPACE>> \o pf_str \o <<SPACE, "FC">>)
    ELSE Strip(updated \o <<SPACE, "PF", SPACE>> \o pf_str)

LegalNamePf(updated, pf_str, has_pf_in_refname) ==
    LegalNamePfAt(updated, pf_str,
                  FirstOf({k \in 1..Len(updated) :
                               EndsWithPf(updated[k]) /\ PfValueEnd(updated, k) # 0}),
                  has_pf_in_refname)

\* lines 464-466: an FC token there must be
LegalNameFc(updated) ==
    IF HasFc(updated) THEN updated ELSE Strip(updated \o <<SPACE, "FC">>)

\* lines 468-476: the days of the foreclosure window
LegalNameDuration(updated, fc_duration_months) ==
    Collapse(IF fc_duration_months = 3
             THEN ReplaceFirstFc(updated, <<"FC", SPACE, "90", "D">>)
             ELSE IF fc_duration_months = 4
             THEN ReplaceFirstFc(updated, <<"FC", SPACE, "120", "D">>)
             ELSE updated)

update_bs2_legal_name_pf_fc_mut_keepPf(text, pf_value, fc_duration_months, has_pf_in_refname) ==
    LegalNameDuration(LegalNameFc(NormalizeFc(Strip(text), 1)), fc_duration_months)

update_bs2_legal_name_pf_fc(text, pf_value, fc_duration_months, has_pf_in_refname) ==
    LegalNameDuration(
        LegalNameFc(LegalNamePf(NormalizeFc(Strip(text), 1),
                                DecimalLexemes(pf_value) \o <<"%">>,
                                has_pf_in_refname)),
        fc_duration_months)

\* -------------------------------------------------------------------------
\* The table.  A table is [rows, cols]: cols the set of its columns, rows a
\* sequence of functions from AllColumns to cells; a column that is not in
\* cols holds the "absent" cell in every row.
\* -------------------------------------------------------------------------

AllColumns ==
    {"refName", "customerLtv", "tenure", "refno", "bs1-legalName", "bs1-ltv",
     "OverallInterestCalculation", "bs1-addon-1", "bs2-addon-1", "bs2-calculation",
     "description", "applicableProcesses", "chargeText", "bs2-charge-2",
     "bs2-charge-3", "bs2-NoOfCharges", "bs2-legalName"}

Absent == Cell("absent", 0)

NaN == Cell("nan", 0)

Blank == Cell("blank", 0)

EmptyObjectText == Cell("dumps", JObj(<<>>))

\* The state of the handler while it runs: the table, or an exception.
Ok(t) == [raised |-> FALSE, rows |-> t.rows, cols |-> t.cols]

Raise(t) == [raised |-> TRUE, rows |-> t.rows, cols |-> t.cols]

\* df[col] = fill, for a column the table does not have
RECURSIVE FillColumn(_, _, _)
FillColumn(rows, col, fill) ==
    IF rows = <<>> THEN <<>>
    ELSE <<[Head(rows) EXCEPT ![col] = fill]>> \o FillColumn(Tail(rows), col, fill)

AddColumn(t, col, fill) ==
    [raised |-> t.raised,
     rows |-> FillColumn(t.rows, col, fill),
     cols |-> t.cols \cup {col}]

\* df.at[i, col] = cell; a column the table does not have is added, with NaN
\* in the other rows
SetAt2(t, i, col, cell) ==
    LET u == IF col \in t.cols THEN t ELSE AddColumn(t, col, NaN)
    IN  [raised |-> u.raised,
         rows |-> [u.rows EXCEPT ![i] = [@ EXCEPT ![col] = cell]],
         cols |-> u.cols]

\* df.at[i, col] = cell if col in df.columns
SetIfPresent(t, i, col, cell) ==
    IF col \in t.cols THEN SetAt2(t, i, col, cell) ELSE t

\* -------------------------------------------------------------------------
\* The Compute loop (lines 562-729), one iteration on row i of table t.
\* -------------------------------------------------------------------------

\* lines 564-571: what the identifier yields
ParsedFrom(refname, range, single) ==
    [has_ltv    |-> HasLtv(refname),
     has_tenure |-> HasTenure(refname),
     has_opp    |-> HasOpp(refname),
     pf_range   |-> range,
     has_overall_pf |-> range.ok \/ single.ok,
     overall_pf |-> IF range.ok THEN range.max ELSE single.val,
     has_pf_in_name |-> has_pf_in_name(refname)]

ParseRefname(refname) ==
    ParsedFrom(refname, extract_pf_range(refname), extract_pf(refname))

\* line 573: not all([overall_ltv, requested_tenure, monthly_opp]); a term or
\* a rate of zero is falsy like None
InvalidRefname(refname) ==
    \/ ~HasLtv(refname)
    \/ ~HasTenure(refname) \/ extract_tenure(refname) = 0
    \/ ~HasOpp(refname) \/ extract_opp(refname) = 0

\* lines 635-652: the processes and the description of an identifier
ResolveProcesses_mut_release(refname_for_process) ==
    LET fallback == extract_applicable_processes(refname_for_process)
    IN  [applicable_processes |-> fallback,
         description_value |-> IF \E k \in 1..Len(fallback) : fallback[k] = "renewal"
                               THEN "RWL" ELSE "FL TO"]

ResolveProcesses(refname_for_process) ==
    LET matched_keyword == find_refname_keyword(refname_for_process)
        fallback == extract_applicable_processes(refname_for_process)
    IN  IF matched_keyword = "renewal"
        THEN [applicable_processes |-> <<"renewal">>, description_value |-> "RWL"]
        ELSE IF matched_keyword \in {"fl to", "fresh", "takeover", "to"}
        THEN [applicable_processes |-> <<"fresh-loan", "takeover-loan">>,
              description_value |-> "FL TO"]
        ELSE [applicable_processes |-> fallback,
              description_value |->
                  IF "renewal" \in Range(fallback) /\ Len(fallback) = 1 THEN "RWL"
                  ELSE IF "fresh-loan" \in Range(fallback)
                          \/ "takeover-loan" \in Range(fallback) THEN "FL TO"
                  ELSE NONE]

\* lines 662-674: the fee back-calculation.  pf_min and pf_max come from the
\* identifier as read at the top of the iteration, refName is the identifier
\* as rewritten at line 585.
\* lines 671-674: which of the two values is written
FeeChosen(min_pf_input, max_pf_input, min_unsecure_pf, max_unsecure_pf, is_flexi) ==
    [min_unsecure_pf |-> min_unsecure_pf,
     max_unsecure_pf |-> max_unsecure_pf,
     is_flexi |-> is_flexi,
     charge_pf_value |-> IF is_flexi THEN max_unsecure_pf ELSE min_unsecure_pf,
     charge_text_overall_pf |-> IF is_flexi THEN max_pf_input ELSE min_pf_input,
     charge_text_unsecure_pf |-> IF is_flexi THEN max_unsecure_pf ELSE min_unsecure_pf]

\* lines 666-667: both values divided by 1 - secure_ltv / overall_ltv
FeeDivided(min_pf_input, max_pf_input, secure_ltv, overall_ltv, is_flexi) ==
    FeeChosen(min_pf_input, max_pf_input,
              QuantDiv(min_pf_input, RATE_SCALE, secure_ltv, overall_ltv),
              QuantDiv(max_pf_input, RATE_SCALE, secure_ltv, overall_ltv),
              is_flexi)

FeeBackCalc_mut_min(refName, pf_range, overall_pf, secure_ltv, overall_ltv) ==
    FeeDivided(IF pf_range.ok THEN pf_range.min ELSE overall_pf,
               IF pf_range.ok THEN pf_range.min ELSE overall_pf,
               secure_ltv, overall_ltv, FALSE)

FeeBackCalc(refName, pf_range, overall_pf, secure_ltv, overall_ltv) ==
    FeeDivided(IF pf_range.ok THEN pf_range.min ELSE overall_pf,
               IF pf_range.ok THEN pf_range.max ELSE overall_pf,
               secure_ltv, overall_ltv,
               is_flexi_pf_refname(refName) \/ has_flexi_token(refName))

\* Decision.py lines 343-356: the same step of the earlier revision, where
\* the sidebar checkbox force_flexi_mode (line 37) takes the place of the
\* test on the stated range.
FeeBackCalcDecision(refName, pf_range, overall_pf, secure_ltv, overall_ltv, force_flexi_mode) ==
    FeeDivided(IF pf_range.ok THEN pf_range.min ELSE overall_pf,
               IF pf_range.ok THEN pf_range.max ELSE overall_pf,
               secure_ltv, overall_ltv,
               force_flexi_mode \/ has_flexi_token(refName))

\* df.at[i, col] = update_interest_json(df.at[i, col], slabs, tenure_days);
\* reading a column the table does not have raises KeyError
PatchInterest(t, i, col, slabs, tenure_days) ==
    IF col \notin t.cols THEN Raise(t)
    ELSE LET r == update_interest_json(t.rows[i][col], slabs, tenure_days)
         IN  IF r.raised THEN Raise(t) ELSE SetAt2(t, i, col, r.cell)

\* lines 576-601
StepDecision(t, i, refname, scheme, final_tenure, overall_ltv, secure_ltv) ==
    LET t1 == SetAt2(t, i, "customerLtv", Cell("num", overall_ltv * 100))
        t2 == SetAt2(t1, i, "tenure", Cell("num", final_tenure * 100))
        t3 == SetAt2(t2, i, "refName",
                     Cell("txt", update_refname_tenure(refname, final_tenure)))
        t4 == SetIfPresent(t3, i, "refno", t3.rows[i]["refName"])
        t5 == SetIfPresent(t4, i, "bs1-legalName", Cell("txt", <<"Rupeek", SPACE, scheme>>))
    IN  SetIfPresent(t5, i, "bs1-ltv", Cell("num", secure_ltv * 100))

\* the same once an exception is under way: nothing more is written
PatchNext(t, i, col, slabs, tenure_days) ==
    IF t.raised THEN t ELSE PatchInterest(t, i, col, slabs, tenure_days)

\* lines 625-628: if "bs2-calculation" in df.columns
PatchIfPresent(t, i, col, slabs, tenure_days) ==
    IF t.raised \/ col \notin t.cols THEN t
    ELSE PatchInterest(t, i, col, slabs, tenure_days)

\* lines 603-628
StepInterest(t, i, result, tenure_days) ==
    PatchIfPresent(
        PatchNext(
            PatchNext(
                PatchInterest(t, i, "OverallInterestCalculation", result.overall_slabs,
                              tenure_days),
                i, "bs1-addon-1", result.secure_slabs, tenure_days),
            i, "bs2-addon-1", result.unsecure_slabs, tenure_days),
        i, "bs2-calculation", result.unsecure_slabs, tenure_days)

DescriptionText(description_value) ==
    IF description_value = "FL TO" THEN <<"FL", SPACE, "TO">> ELSE <<description_value>>

\* lines 654-658
StepProcesses(t, i, res) ==
    LET t1 == IF res.description_value # NONE
              THEN SetIfPresent(t, i, "description",
                                Cell("txt", DescriptionText(res.description_value)))
              ELSE t
    IN  SetIfPresent(t1, i, "applicableProcesses",
                     Cell("csv", res.applicable_processes))

\* lines 676-681: the charge text, when the table has the column
StepFeeText(t, i, text) ==
    IF "chargeText" \notin t.cols THEN t
    ELSE IF text.raised THEN Raise(t)
    ELSE SetAt2(t, i, "chargeText", text.cell)

\* lines 683-690: the fee document
StepFeeCharge(t, i, fee, applicable_processes) ==
    IF t.raised THEN t
    ELSE SetIfPresent(t, i, "bs2-charge-2",
                      update_json_applicable_processes(
                          update_bs2_charge_2(t.rows[i]["bs2-charge-2"],
                                              fee.charge_pf_value, fee.min_unsecure_pf,
                                              fee.max_unsecure_pf, fee.is_flexi),
                          applicable_processes))

StepFeeWrite(t, i, fee, applicable_processes) ==
    StepFeeCharge(
        StepFeeText(t, i,
                    update_charge_text(t.rows[i]["chargeText"],
                                       fee.charge_text_unsecure_pf,
                                       RoundHalfUp(fee.charge_text_overall_pf, RATE_SCALE))),
        i, fee, applicable_processes)

\* lines 660-692
StepFee(t, i, parsed, secure_ltv, overall_ltv, applicable_processes) ==
    IF parsed.has_pf_in_name /\ parsed.has_overall_pf
    THEN StepFeeWrite(t, i,
                      FeeBackCalc(CellText(t.rows[i]["refName"]), parsed.pf_range,
                                  parsed.overall_pf, secure_ltv, overall_ltv),
                      applicable_processes)
    ELSE SetIfPresent(t, i, "chargeText", EmptyObjectText)

\* lines 694-715
StepForeclosure(t, i, has_pf, fc_unsecure_value, duration_months, applicable_processes) ==
    LET target == IF has_pf THEN "bs2-charge-3" ELSE "bs2-charge-2"
        t1 == IF target \in t.cols THEN t ELSE AddColumn(t, target, Blank)
        t2 == SetAt2(t1, i, target,
                     update_foreclosure_charge(t1.rows[i][target], fc_unsecure_value,
                                               duration_months, applicable_processes))
        t3 == IF has_pf THEN t2
              ELSE SetAt2(IF "bs2-charge-3" \in t2.cols THEN t2
                          ELSE AddColumn(t2, "bs2-charge-3", Blank),
                          i, "bs2-charge-3", EmptyObjectText)
    IN  SetIfPresent(t3, i, "bs2-NoOfCharges",
                     Cell("num", IF has_pf THEN 300 ELSE 200))

\* lines 717-729
StepLabel(t, i, final_tenure, fc_unsecure_value, duration_months, has_pf) ==
    LET encoding == IF final_tenure = 12 THEN "th7.si5" ELSE "f8"
        updated_legal_name ==
            update_bs2_legal_name(CellText(t.rows[i]["bs2-legalName"]), final_tenure,
                                  encoding)
    IN  SetIfPresent(t, i, "bs2-legalName",
                     Cell("txt", update_bs2_legal_name_pf_fc(
                                     updated_legal_name, fc_unsecure_value,
                                     duration_months, has_pf)))

\* lines 694-729, unless an exception is under way
ProcessForeclosure(t, i, has_pf, final_tenure, fc_unsecure_value, duration_months, applicable_processes) ==
    IF t.raised THEN t
    ELSE StepLabel(StepForeclosure(t, i, has_pf, fc_unsecure_value, duration_months,
                                   applicable_processes),
                   i, final_tenure, fc_unsecure_value, duration_months, has_pf)

\* lines 654-729, with res the processes and fc the foreclosure terms of the
\* rewritten identifier
ProcessResolved(t, i, parsed, overall_ltv, final_tenure, secure_ltv, res, fc) ==
    ProcessForeclosure(
        StepFee(StepProcesses(t, i, res), i, parsed, secure_ltv, overall_ltv,
                res.applicable_processes),
        i, parsed.has_pf_in_name, final_tenure,
        QuantDiv(fc[1], 1, secure_ltv, overall_ltv), fc[2], res.applicable_processes)

\* lines 630-652: the identifier is read again from the table
ProcessCharges(t, i, parsed, overall_ltv, final_tenure, secure_ltv) ==
    IF t.raised \/ secure_ltv = overall_ltv THEN t
    ELSE ProcessResolved(t, i, parsed, overall_ltv, final_tenure, secure_ltv,
                         ResolveProcesses(CellText(t.rows[i]["refName"])),
                         get_foreclosure_terms(CellText(t.rows[i]["refName"]),
                                               final_tenure))

\* lines 579-628
ProcessRated(t, i, refname, parsed, overall_ltv, scheme, final_tenure, result) ==
    ProcessCharges(
        StepInterest(StepDecision(Ok(t), i, refname, scheme, final_tenure, overall_ltv,
                                  result.secure_ltv),
                     i, result, get_tenure_days(final_tenure)),
        i, parsed, overall_ltv, final_tenure, result.secure_ltv)

\* lines 576-578
ProcessDecided(t, i, refname, parsed, overall_ltv, monthly_opp, decision) ==
    ProcessRated(t, i, refname, parsed, overall_ltv, decision[1], decision[2],
                 interest_engine(decision[1], decision[2], overall_ltv, monthly_opp))

\* the guard of line 573 placed after the write of line 576
ProcessRefname_mut_lateGuard(t, i, refname) ==
    IF InvalidRefname(refname)
    THEN IF HasLtv(refname)
         THEN SetAt2(Ok(t), i, "customerLtv",
                     Cell("num", extract_ltv_from_code(refname) * 100))
         ELSE Ok(t)
    ELSE ProcessDecided(t, i, refname, ParseRefname(refname),
                        extract_ltv_from_code(refname), extract_opp(refname),
                        decision_engine(extract_ltv_from_code(refname),
                                        extract_opp(refname), extract_tenure(refname)))

\* lines 566-576
ProcessRefname(t, i, refname) ==
    IF InvalidRefname(refname) THEN Ok(t)
    ELSE ProcessDecided(t, i, refname, ParseRefname(refname),
                        extract_ltv_from_code(refname), extract_opp(refname),
                        decision_engine(extract_ltv_from_code(refname),
                                        extract_opp(refname), extract_tenure(refname)))

\* One iteration of the loop on row i: the table after it, or an exception.
ProcessRow(t, i) ==
    IF "refName" \notin t.cols THEN Raise(t)
    ELSE ProcessRefname(t, i, CellText(t.rows[i]["refName"]))

\* -------------------------------------------------------------------------
\* Decision.py, the earlier revision of the flow, up to its fee step.
\* -------------------------------------------------------------------------

\* Decision.py lines 94-123: no change of the term on either Royal path
Decision_decision_engine(overall_ltv, monthly_opp, requested_tenure) ==
    LET secure_s1   == 995
        secure_ltv  == IF requested_tenure = 12 THEN 60 ELSE 67
        unsecure_s1 == IF requested_tenure = 12 THEN 3765 ELSE 4800
    IN  IF overall_ltv <= secure_ltv
        THEN <<"Royal", requested_tenure>>
        ELSE LET min_opp == RoundHalfUp(secure_ltv * secure_s1, 12 * overall_ltv)
                 max_opp == RoundHalfUp(secure_ltv * secure_s1
                                          + (overall_ltv - secure_ltv) * unsecure_s1,
                                        12 * overall_ltv)
             IN  IF min_opp * RATE_SCALE <= monthly_opp
                    /\ monthly_opp <= max_opp * RATE_SCALE
                 THEN <<"Delight", requested_tenure>>
                 ELSE <<"Royal", requested_tenure>>

\* PF\s*[-:]?\s*(number)% matched with the PF at position i (Decision.py
\* line 65): no space before the %
Decision_PfSingleAt(t, i) ==
    LET a == SkipSpaces(t, i + 1)
        b == IF At(t, a) \in {"-", ":"} THEN SkipSpaces(t, a + 1) ELSE a
    IN  NumberPercentAt(t, b, "%")

\* ...\s*[-–]\s*(number)% continuing it (Decision.py lines 69-73)
Decision_PfRangeAt(t, i) ==
    PfRangeOf(t, Decision_PfSingleAt(t, i), {"-", "ndash"}, "%")

Decision_PfRangeStart(t) ==
    FirstOf({i \in 1..Len(t) : EndsWithPf(t[i]) /\ Decision_PfRangeAt(t, i).ok})

Decision_PfSingleStart(t) ==
    FirstOf({i \in 1..Len(t) : EndsWithPf(t[i]) /\ Decision_PfSingleAt(t, i).ok})

Decision_PfRangeFirst(t, i) == MatchIf(i, Decision_PfRangeAt(t, i))

Decision_PfSingleFirst(t, i) == MatchIf(i, Decision_PfSingleAt(t, i))

\* Decision.py lines 68-76: the pattern or nothing
Decision_extract_pf_range(t) ==
    PfRangeResult(Decision_PfRangeFirst(t, Decision_PfRangeStart(t)), <<>>)

\* Decision.py lines 64-66
Decision_extract_pf(t) ==
    PfSingleResult(Decision_PfSingleFirst(t, Decision_PfSingleStart(t)), <<>>)

\* Decision.py lines 282-289: the values read from the identifier and the
\* guard, which asks for a fee as well
Decision_ParsedFrom(range, single) ==
    [pf_range       |-> range,
     has_overall_pf |-> range.ok \/ single.ok,
     overall_pf     |-> IF range.ok THEN range.max ELSE single.val]

Decision_ParseRefname(refname) ==
    Decision_ParsedFrom(Decision_extract_pf_range(refname), Decision_extract_pf(refname))

Decision_NoFee(parsed) == ~parsed.has_overall_pf \/ parsed.overall_pf = 0

Decision_InvalidRefname(refname) ==
    \/ InvalidRefname(refname)
    \/ Decision_NoFee(Decision_ParseRefname(refname))

\* -------------------------------------------------------------------------
\* The uploaded tables.
\* -------------------------------------------------------------------------

\* How many rows an uploaded table has at most, and how many times Compute
\* is clicked at most.
MaxRows == 2

MaxPasses == 2

\* The refName texts of the uploaded rows, as lexemes.
Identifiers ==
    {<<"(", "s5", ")", " ", "6", "M", " ", "1", ".", "00", "%", " ", "PF", " ", "1", ".", "00", "%">>,
     <<"(", "e0", ")", " ", "12", "M", " ", "1", ".", "20", "%", " ", "PF", "-", "0", ".", "70", "%", "-", "1", ".", "00", "%", " ", "renewal">>,
     <<"(", "si5", ")", " ", "7", "M", " ", "1", ".", "20", "%", " ", "PF", " ", "1", "%">>,
     <<"e0", " ", "6", "M", " ", "1", ".", "25", "%">>,
     <<"(", "e0", ")", " ", "renewal", " ", "fresh", " ", "7", "M", " ", "1", ".", "10", "%", " ", "silver", " ", "<", "6", "L">>,
     <<"s7", " ", "silver", " ", "6", "M", " ", "0", ".", "90", "%", " ", "flexipf", " ", "1", "%", " ", "2", "%", " ", "fresh">>,
     <<"x", " ", "6", "M", " ", "1", "%">>,
     <<"e0", " ", "12", "M">>,
     <<"e0", " ", "1", ".", "2", "%">>}

\* Identifiers for the fee step.
FeeIdentifiers ==
    {<<"(", "s5", ")", " ", "6", "M", " ", "1", ".", "00", "%", " ", "PF", " ", "1", ".", "00", "%">>,
     <<"(", "e0", ")", " ", "12", "M", " ", "1", ".", "20", "%", " ", "PF", "-", "0", ".", "70", "%", "-", "1", ".", "00", "%", " ", "renewal">>,
     <<"(", "si5", ")", " ", "7", "M", " ", "1", ".", "20", "%", " ", "PF", " ", "1", "%">>,
     <<"(", "e0", ")", " ", "12", "M", " ", "1", ".", "00", "%", " ", "PF", " ", "1", ".", "00", "%">>,
     <<"s6", " ", "12", "M", " ", "1", ".", "00125", "%", " ", "PF", " ", "0", ".", "375", "%", " ", "FL", " ", "TO">>,
     <<"e1", " ", "s7", " ", "economy", " ", "12", "L", "+", " ", "12", "M", " ", "0", ".", "95", "%", " ", "PF", ":", " ", "1", ".", "5", " ", "%", " ", "ndash", " ", "2", " ", "%">>,
     <<"(", "s5", ")", " ", "6", "M", " ", "1", ".", "50", "%", " ", "PF", " ", "2", "%">>,
     <<"s7", " ", "silver", " ", "6", "M", " ", "0", ".", "90", "%", " ", "flexipf", " ", "1", "%", " ", "2", "%", " ", "fresh">>,
     <<"e0", " ", "6", "M", " ", "1", ".", "25", "%">>,
     <<"(", "s7", ")", " ", "7", "M", " ", "0", ".", "95", "%", " ", "PF", "-", "1", ".", "00", "%", "-", "1", ".", "00", "%">>}

\* Identifiers for the foreclosure lookup: the scheme code in the group set,
\* in the e-series set, in neither or absent; each variant; each ticket
\* bucket.
ForeclosureIdentifiers ==
    {code \o variant \o bucket \o <<"12", "M", " ", "1", ".", "00", "%">> :
        code \in {<<"s5", " ">>, <<"s7", " ">>, <<"e0", " ">>,
                  <<"e1", " ", "s7", " ">>, <<"s6", " ">>, <<"si5", " ">>},
        variant \in {<<"economy", " ">>, <<"silver", " ">>, <<>>},
        bucket \in {<<"<", "3", "L", " ">>, <<"6", "-", "12", "L", " ">>, <<>>}}

\* Identifiers for the process resolution.
KeywordIdentifiers ==
    {<<"e0", " ", "6", "M", " ", "1", ".", "25", "%">>,
     <<"e0", " ", "6", "M", " ", "1", ".", "25", "%", " ", "fresh">>,
     <<"e0", " ", "6", "M", " ", "1", ".", "25", "%", " ", "renewal">>,
     <<"e0", " ", "6", "M", " ", "1", ".", "25", "%", " ", "takeover">>,
     <<"e0", " ", "6", "M", " ", "1", ".", "25", "%", " ", "FL", " ", "TO">>,
     <<"e0", " ", "renewal", " ", "fresh", " ", "6", "M", " ", "1", ".", "25", "%">>,
     <<"e0", " ", "fresh", " ", "renewal", " ", "6", "M", " ", "1", ".", "25", "%">>,
     <<"e0", " ", "6", "M", " ", "1", ".", "25", "%", " ", "retention">>,
     <<"e0", " ", "take", " ", "over", " ", "6", "M", " ", "1", ".", "25", "%">>,
     <<"e0", " ", "renewal", " ", "6", "M", " ", "1", ".", "25", "%", " ", "FL", " ", "TO">>,
     <<"e0", " ", "takeover", " ", "6", "M", " ", "1", ".", "25", "%", " ", "Renewal">>,
     <<"e0", " ", "6", "M", " ", "1", ".", "25", "%", " ", "FL", "-", "TO">>,
     <<"e0", " ", "6", "M", " ", "1", ".", "25", "%", " ", "renewals">>}

\* The terms an identifier can ask for.
Terms == {3, 6, 7, 9, 12}

\* The LTV percentages of LTV_CODE_MAP with those around the two thresholds
\* of the decision engine.
LtvInputs == {60, 65, 66, 67, 68, 75, 76, 77, 80}

\* Monthly rates 0.50000 .. 1.60999 in units of 0.00001: each hundredth, the
\* value just above it and the one just below the next.
RateInputs == {h * RATE_SCALE + d : h \in 50..160, d \in {0, 1, 999}}

RateSamples == {69000, 74000, 100000, 100125, 117000, 120000, 134000, 150000}

Slab(rate, to_day) ==
    JObj(<< <<"interestRate", JNum(rate)>>, <<"toDay", JNum(to_day)>> >>)

ThreeSlabs == JArr(<<Slab(1000, 3000), Slab(1500, 6000), Slab(2000, 18000)>>)

SlabsDocument == Cell("json", JObj(<< <<"interestSlabs", ThreeSlabs>> >>))

SlabListDocument == Cell("json", ThreeSlabs)

FlatRateDocument == Cell("json", Slab(4800, 18000))

\* a slab list whose items are not objects
MalformedSlabsDocument ==
    Cell("json", JObj(<< <<"interestSlabs", JArr(<<JNum(100), JNum(200), JNum(300)>>)>> >>))

ChargeTextDocument == Cell("json", JObj(<< <<"processingFee", JStr("1%")>> >>))

\* a fee text that is a list
ChargeListDocument == Cell("json", JArr(<<>>))

PfChargeDocument ==
    Cell("json", JObj(<< <<"name", JStr("Processing Fee")>>,
                         <<"chargeValue", JNum(100)>>,
                         <<"chargesMetaData", JObj(<< <<"minPercentUnsecure", JNum(100)>> >>)>> >>))

ForeclosureDocument == Cell("json", ForeclosureTemplate)

LabelText ==
    <<"Rupeek", " ", "6", "M", " ", "48", "%", " ", "PF", " ", "1", ".", "00", "%", " ",
      "FC", " ", "90", "D">>

\* One row of an uploaded file.  documents says how its cells are filled:
\* "complete", "sparse" (optional cells empty), "malformed" (a slab list of
\* numbers) or "listed" (a fee text that is a list).
UploadedRow(refname, documents) ==
    [c \in AllColumns |->
        CASE c = "refName" -> Cell("txt", refname)
          [] c \in {"customerLtv", "tenure", "bs1-ltv", "bs2-NoOfCharges"} ->
                IF documents = "sparse" THEN NaN ELSE Cell("num", 100)
          [] c \in {"refno", "bs1-legalName", "description"} -> Cell("txt", <<"old">>)
          [] c = "applicableProcesses" -> Cell("csv", <<"release">>)
          [] c = "OverallInterestCalculation" ->
                IF documents = "malformed" THEN MalformedSlabsDocument ELSE SlabsDocument
          [] c = "bs1-addon-1" -> SlabListDocument
          [] c = "bs2-addon-1" -> IF documents = "sparse" THEN NaN ELSE SlabsDocument
          [] c = "bs2-calculation" -> FlatRateDocument
          [] c = "chargeText" ->
                IF documents = "sparse" THEN NaN
                ELSE IF documents = "listed" THEN ChargeListDocument
                ELSE ChargeTextDocument
          [] c = "bs2-charge-2" -> IF documents = "sparse" THEN Blank ELSE PfChargeDocument
          [] c = "bs2-charge-3" -> IF documents = "sparse" THEN Blank ELSE ForeclosureDocument
          [] c = "bs2-legalName" ->
                IF documents = "sparse" THEN NaN ELSE Cell("txt", LabelText)]

UploadedRows ==
    {UploadedRow(r, "complete") : r \in Identifiers}
      \cup {UploadedRow(<<"e0", " ", "6", "M", " ", "1", ".", "25", "%">>, "sparse"),
            UploadedRow(<<"(", "s5", ")", " ", "6", "M", " ", "1", ".", "00", "%", " ",
                          "PF", " ", "1", ".", "00", "%">>, "malformed"),
            UploadedRow(<<"(", "si5", ")", " ", "7", "M", " ", "1", ".", "20", "%", " ",
                          "PF", " ", "1", "%">>, "listed")}

\* The columns the loop reads without asking whether the table has them.
MandatoryColumns ==
    {"refName", "OverallInterestCalculation", "bs1-addon-1", "bs2-addon-1"}

ColumnSets ==
    {AllColumns,
     MandatoryColumns,
     AllColumns \ {"tenure", "bs2-charge-3"},
     AllColumns \ {"bs2-addon-1"}}

\* the row as a file with the columns cols holds it
Restrict(row, cols) == [c \in AllColumns |-> IF c \in cols THEN row[c] ELSE Absent]

\* the sequences of 1..n uploaded rows
RECURSIVE RowSeqs(_)
RowSeqs(n) ==
    IF n = 0 THEN {<<>>}
    ELSE LET shorter == RowSeqs(n - 1)
         IN  shorter \cup {Append(q, r) : q \in {p \in shorter : Len(p) = n - 1},
                                          r \in UploadedRows}

\* pd.read_csv(uploaded_file) (line 549)
Uploads ==
    {[rows |-> [k \in 1..Len(q) |-> Restrict(q[k], cols)], cols |-> cols] :
        q \in RowSeqs(MaxRows) \ {<<>>}, cols \in ColumnSets}

NoTable == [rows |-> <<>>, cols |-> {}]

NoCall == [op |-> "none"]

\* -------------------------------------------------------------------------
\* The Streamlit flow (lines 543-731).
\* -------------------------------------------------------------------------

Init ==
    /\ session_df \in Uploads
    /\ df = session_df
    /\ idx = 0
    /\ pc = "idle"
    /\ passes = 0
    /\ call = NoCall

\* st.button("Compute") (lines 558-562): the loop starts on a copy of the
\* table of the session
Compute ==
    /\ pc \in {"idle", "raised"}
    /\ passes < MaxPasses
    /\ df' = session_df
    /\ idx' = 1
    /\ pc' = "loop"
    /\ passes' = passes + 1
    /\ UNCHANGED <<session_df, call>>

\* the iteration left the table `after` and no exception
Completed(after) ==
    /\ ~after.raised
    /\ df' = [rows |-> after.rows, cols |-> after.cols]

\* One iteration of the loop (lines 562-729) that ends normally or with one
\* of its two `continue`.
Iterate ==
    /\ pc = "loop"
    /\ idx <= Len(df.rows)
    /\ Completed(ProcessRow(df, idx))
    /\ idx' = idx + 1
    /\ UNCHANGED <<session_df, pc, passes, call>>

\* One iteration that raises: the script run ends there, the copy is dropped
\* and the table of the session stays as it was.
Abort ==
    /\ pc = "loop"
    /\ idx <= Len(df.rows)
    /\ ProcessRow(df, idx).raised
    /\ pc' = "raised"
    /\ df' = session_df
    /\ idx' = 0
    /\ UNCHANGED <<session_df, passes, call>>

\* The end of the loop (line 731): st.session_state.df = df
Finish ==
    /\ pc = "loop"
    /\ idx > Len(df.rows)
    /\ session_df' = df
    /\ pc' = "idle"
    /\ idx' = 0
    /\ UNCHANGED <<df, passes, call>>

Next == Compute \/ Iterate \/ Abort \/ Finish

Spec == Init /\ [][Next]_vars

\* -------------------------------------------------------------------------
\* The functions of the flow, each applied once to inputs drawn from the
\* sets above.  call holds the function, its arguments and what it returned.
\* -------------------------------------------------------------------------

InitFn ==
    /\ session_df = NoTable
    /\ df = NoTable
    /\ idx = 0
    /\ pc = "call"
    /\ passes = 0
    /\ call = NoCall

\* decision_engine(overall_ltv, monthly_opp, requested_tenure) (line 578)
CallDecide ==
    /\ call = NoCall
    /\ \E overall_ltv \in LtvInputs, monthly_opp \in RateInputs, requested_tenure \in Terms :
          call' = [op   |-> "decision_engine",
                   args |-> <<overall_ltv, monthly_opp, requested_tenure>>,
                   out  |-> decision_engine(overall_ltv, monthly_opp, requested_tenure)]
    /\ UNCHANGED <<session_df, df, idx, pc, passes>>

\* interest_engine on what decision_engine returned (lines 578-596), for an
\* LTV of the code table
CallRate ==
    /\ call = NoCall
    /\ \E code \in DOMAIN LTV_CODE_MAP, monthly_opp \in RateSamples,
          requested_tenure \in Terms :
          LET overall_ltv == LTV_CODE_MAP[code]
              decision == decision_engine(overall_ltv, monthly_opp, requested_tenure)
          IN  call' = [op   |-> "interest_engine",
                       args |-> <<decision[1], decision[2], overall_ltv, monthly_opp>>,
                       out  |-> interest_engine(decision[1], decision[2], overall_ltv,
                                                monthly_opp)]
    /\ UNCHANGED <<session_df, df, idx, pc, passes>>

\* The fee back-calculation of an identifier (lines 564-596, 630-674)
CallFee ==
    /\ call = NoCall
    /\ \E refname \in FeeIdentifiers :
          LET parsed      == ParseRefname(refname)
              overall_ltv == extract_ltv_from_code(refname)
              monthly_opp == extract_opp(refname)
              decision    == decision_engine(overall_ltv, monthly_opp,
                                             extract_tenure(refname))
              secure_ltv  == interest_engine(decision[1], decision[2], overall_ltv,
                                             monthly_opp).secure_ltv
              refName     == update_refname_tenure(refname, decision[2])
          IN  /\ ~InvalidRefname(refname)
              /\ secure_ltv # overall_ltv
              /\ parsed.has_pf_in_name /\ parsed.has_overall_pf
              /\ call' = [op   |-> "fee",
                          args |-> [refname |-> refname,
                                    force_flexi_mode |-> FALSE,
                                    min_pf_input |-> IF parsed.pf_range.ok
                                                     THEN parsed.pf_range.min
                                                     ELSE parsed.overall_pf,
                                    max_pf_input |-> IF parsed.pf_range.ok
                                                     THEN parsed.pf_range.max
                                                     ELSE parsed.overall_pf,
                                    secure_ltv |-> secure_ltv,
                                    overall_ltv |-> overall_ltv],
                          out  |-> FeeBackCalc(refName, parsed.pf_range, parsed.overall_pf,
                                               secure_ltv, overall_ltv)]
    /\ UNCHANGED <<session_df, df, idx, pc, passes>>

\* The same step in Decision.py (lines 280-356), with the sidebar checkbox
\* force_flexi_mode (line 37)
CallFeeDecision ==
    /\ call = NoCall
    /\ \E refname \in FeeIdentifiers, force_flexi_mode \in BOOLEAN :
          LET parsed      == Decision_ParseRefname(refname)
              overall_ltv == extract_ltv_from_code(refname)
              monthly_opp == extract_opp(refname)
              decision    == Decision_decision_engine(overall_ltv, monthly_opp,
                                                      extract_tenure(refname))
              secure_ltv  == interest_engine(decision[1], decision[2], overall_ltv,
                                             monthly_opp).secure_ltv
              refName     == update_refname_tenure(refname, decision[2])
          IN  /\ ~Decision_InvalidRefname(refname)
              /\ secure_ltv # overall_ltv
              /\ call' = [op   |-> "fee_decision",
                          args |-> [refname |-> refname,
                                    force_flexi_mode |-> force_flexi_mode,
                                    min_pf_input |-> IF parsed.pf_range.ok
                                                     THEN parsed.pf_range.min
                                                     ELSE parsed.overall_pf,
                                    max_pf_input |-> IF parsed.pf_range.ok
                                                     THEN parsed.pf_range.max
                                                     ELSE parsed.overall_pf,
                                    secure_ltv |-> secure_ltv,
                                    overall_ltv |-> overall_ltv],
                          out  |-> FeeBackCalcDecision(refName, parsed.pf_range,
                                                       parsed.overall_pf, secure_ltv,
                                                       overall_ltv, force_flexi_mode)]
    /\ UNCHANGED <<session_df, df, idx, pc, passes>>

\* get_foreclosure_terms(df.at[idx, "refName"], final_tenure) (line 694)
CallForeclosure ==
    /\ call = NoCall
    /\ \E refname \in ForeclosureIdentifiers, final_tenure \in Terms :
          call' = [op   |-> "get_foreclosure_terms",
                   args |-> <<refname, final_tenure>>,
                   out  |-> get_foreclosure_terms(refname, final_tenure)]
    /\ UNCHANGED <<session_df, df, idx, pc, passes>>

\* The process resolution of an identifier (lines 635-652)
CallResolve ==
    /\ call = NoCall
    /\ \E refname \in KeywordIdentifiers :
          call' = [op   |-> "resolve",
                   args |-> <<refname>>,
                   out  |-> ResolveProcesses(refname)]
    /\ UNCHANGED <<session_df, df, idx, pc, passes>>

\* Documents for the slab patch: the slab list under its key, at the root and
\* nested; with three, four, two and no elements; with elements that are not
\* objects; no list at all; texts that json.loads rejects.
NotedSlab(rate, to_day, note) ==
    JObj(<< <<"fromDay", JNum(100)>>, <<"interestRate", JNum(rate)>>,
            <<"toDay", JNum(to_day)>>, <<"note", JStr(note)>> >>)

FourSlabs ==
    JArr(<<NotedSlab(1000, 3000, "a"), NotedSlab(1500, 6000, "b"),
           JObj(<< <<"toDay", JNum(9000)>> >>), NotedSlab(2500, 18000, "d")>>)

TwoSlabs == JArr(<<Slab(1000, 3000), Slab(1500, 6000)>>)

UnratedThree ==
    JArr(<<JObj(<< <<"a", JNum(100)>> >>), JObj(<< <<"b", JNum(200)>> >>),
           JObj(<< <<"c", JNum(300)>> >>)>>)

SlabPatchValues ==
    {JObj(<< <<"interestSlabs", ThreeSlabs>> >>),
     ThreeSlabs,
     JObj(<< <<"id", JStr("x")>>, <<"interestSlabs", FourSlabs>>, <<"active", JNull>> >>),
     FourSlabs,
     JObj(<< <<"config", JObj(<< <<"rates", FourSlabs>> >>)>> >>),
     JArr(<<JStr("x"), JObj(<< <<"rates", ThreeSlabs>> >>)>>),
     JObj(<< <<"first", JObj(<< <<"rates", FourSlabs>> >>)>>, <<"interestSlabs", ThreeSlabs>> >>),
     JObj(<< <<"first", TwoSlabs>>, <<"second", ThreeSlabs>> >>),
     JObj(<< <<"interestSlabs", TwoSlabs>> >>),
     TwoSlabs,
     JObj(<< <<"interestSlabs", UnratedThree>> >>),
     UnratedThree,
     JObj(<< <<"interestSlabs", JArr(<<>>)>>, <<"interestRate", JNum(1000)>> >>),
     JObj(<< <<"interestSlabs", JArr(<<JNum(100), JNum(200), JNum(300)>>)>> >>),
     JObj(<< <<"interestSlabs", JArr(<<Slab(1000, 3000), Slab(1500, 6000), Slab(2000, 9000), JNum(400)>>)>> >>),
     JArr(<<Slab(1000, 3000), Slab(1500, 6000), JNum(300)>>),
     Slab(1000, 18000),
     JObj(<< <<"interestRate", JNum(1000)>> >>),
     JObj(<< <<"name", JStr("x")>> >>),
     JArr(<<>>),
     JNum(100),
     JNull}

SlabPatchDocuments ==
    {Cell("json", v) : v \in SlabPatchValues}
      \cup {NaN, Blank, Cell("bad", "{"), Cell("txt", <<"old">>)}

\* The schedules handed to the slab patch: three slabs as interest_engine
\* returns them, and shorter ones.
SlabSchedules == {<<1440, 2171, 2792>>, <<1440, 2171>>, <<>>}

\* update_interest_json(df.at[idx, col], slabs, get_tenure_days(final_tenure))
\* (lines 603-628)
CallSlabPatch ==
    /\ call = NoCall
    /\ \E json_str \in SlabPatchDocuments, slabs \in SlabSchedules, final_tenure \in Terms :
          call' = [op   |-> "update_interest_json",
                   args |-> [json_str |-> json_str, slabs |-> slabs,
                             final_tenure |-> final_tenure],
                   out  |-> update_interest_json(json_str, slabs,
                                                 get_tenure_days(final_tenure))]
    /\ UNCHANGED <<session_df, df, idx, pc, passes>>

\* Texts that json.loads rejects
UnparseableCells == {NaN, Blank, Cell("bad", "{"), Cell("txt", <<"old">>)}

\* Documents for the fee text: an object, and JSON values of other shapes.
ChargeTextDocuments ==
    {ChargeTextDocument,
     Cell("json", JObj(<< <<"note", JStr("x")>>, <<"unsecureProcessingFee", JStr("old")>> >>)),
     ChargeListDocument,
     Cell("json", JArr(<<JStr("x")>>)),
     Cell("json", JNum(100)),
     Cell("json", JNull)} \cup UnparseableCells

\* update_charge_text(df.at[idx, "chargeText"], charge_text_unsecure_pf,
\* charge_text_overall_pf) (lines 676-681)
CallChargeText ==
    /\ call = NoCall
    /\ \E json_str \in ChargeTextDocuments, unsecure_pf \in {280, 400, 937},
          overall_pf \in {70000, 100000} :
          call' = [op   |-> "update_charge_text",
                   args |-> [json_str |-> json_str, unsecure_pf |-> unsecure_pf,
                             overall_pf |-> overall_pf],
                   out  |-> update_charge_text(json_str, unsecure_pf, overall_pf)]
    /\ UNCHANGED <<session_df, df, idx, pc, passes>>

\* Documents for the fee charge: with a metadata object, with a metadata that
\* is not an object, without one, and values that are not objects.
PfChargeDocuments ==
    {PfChargeDocument,
     Cell("json", JObj(<< <<"name", JStr("Processing Fee")>>,
                          <<"chargesMetaData", JObj(<< <<"note", JStr("x")>>,
                                                       <<"maxPercentUnsecure", JNum(900)>> >>)>>,
                          <<"chargeType", JStr("old")>> >>)),
     Cell("json", JObj(<< <<"chargesMetaData", JStr("x")>>, <<"chargeValue", JNum(100)>> >>)),
     Cell("json", JObj(<< <<"name", JStr("Processing Fee")>> >>)),
     Cell("json", JObj(<<>>)),
     Cell("json", JArr(<<JObj(<< <<"chargeValue", JNum(100)>> >>)>>)),
     Cell("json", JNum(100))} \cup UnparseableCells

\* update_bs2_charge_2(df.at[idx, "bs2-charge-2"], charge_pf_value,
\* min_unsecure_pf, max_unsecure_pf, is_flexi) (lines 683-690), with
\* charge_pf_value as line 672 chooses it
CallFeeCharge ==
    /\ call = NoCall
    /\ \E json_str \in PfChargeDocuments, backcalc_min \in {280, 400},
          backcalc_max \in {400, 937}, is_flexi \in BOOLEAN :
          call' = [op   |-> "update_bs2_charge_2",
                   args |-> [json_str |-> json_str,
                             charge_value |-> IF is_flexi THEN backcalc_max ELSE backcalc_min,
                             backcalc_min |-> backcalc_min,
                             backcalc_max |-> backcalc_max,
                             is_flexi |-> is_flexi],
                   out  |-> Returned(update_bs2_charge_2(
                                json_str, IF is_flexi THEN backcalc_max ELSE backcalc_min,
                                backcalc_min, backcalc_max, is_flexi))]
    /\ UNCHANGED <<session_df, df, idx, pc, passes>>

\* Documents for the foreclosure charge: the template, objects with further
\* fields and with further metadata, a metadata that is not an object, the
\* empty object, and values that are not objects.
ForeclosureDocuments ==
    {ForeclosureDocument,
     Cell("json", JObj(<< <<"id", JNum(700)>>,
                          <<"name", JStr("old")>>,
                          <<"chargesMetaData", JObj(<< <<"note", JStr("x")>>,
                                                       <<"duration", JNum(200)>> >>)>>,
                          <<"taxable", JNull>> >>)),
     Cell("json", JObj(<< <<"chargesMetaData", JStr("x")>>, <<"id", JNum(700)>> >>)),
     Cell("json", JObj(<<>>)),
     Cell("json", JArr(<<JObj(<< <<"id", JNum(700)>> >>)>>)),
     Cell("json", JNum(100))} \cup UnparseableCells

\* update_foreclosure_charge(df.at[idx, col], fc_unsecure_value,
\* duration_months, applicable_processes) (lines 702-715)
CallForeclosureCharge ==
    /\ call = NoCall
    /\ \E json_str \in ForeclosureDocuments, foreclosure_unsecure_value \in {400, 938},
          duration_months \in {3, 4},
          applicable_processes \in {<<"renewal">>, <<"fresh-loan", "takeover-loan", "release">>} :
          call' = [op   |-> "update_foreclosure_charge",
                   args |-> [json_str |-> json_str,
                             foreclosure_unsecure_value |-> foreclosure_unsecure_value,
                             duration_months |-> duration_months,
                             applicable_processes |-> applicable_processes],
                   out  |-> Returned(update_foreclosure_charge(
                                json_str, foreclosure_unsecure_value, duration_months,
                                applicable_processes))]
    /\ UNCHANGED <<session_df, df, idx, pc, passes>>

\* Identifiers for the second pass: every LTV code, every requested term
\* written as "6M", "6 M" and "6m", and rates on both sides of the bands.
PassIdentifiers ==
    {<<code, " ", IntLex(term)>> \o m \o <<" ">> \o DecimalLexemes(rate) \o <<"%">> :
        code \in DOMAIN LTV_CODE_MAP, term \in Terms,
        m \in {<<"M">>, <<" ", "M">>, <<"m">>},
        rate \in {69, 74, 100, 117, 120, 134, 150}}
      \cup {r \in Identifiers \cup FeeIdentifiers : ~InvalidRefname(r)}

\* lines 564-585 on an identifier: what decision_engine returns and the
\* identifier as line 585 rewrites it
PassOf(refname) ==
    IF InvalidRefname(refname) THEN [skipped |-> TRUE, decision |-> <<NONE, 0>>, refName |-> refname]
    ELSE [skipped  |-> FALSE,
          decision |-> decision_engine(extract_ltv_from_code(refname), extract_opp(refname),
                                       extract_tenure(refname)),
          refName  |-> update_refname_tenure(
                          refname,
                          decision_engine(extract_ltv_from_code(refname), extract_opp(refname),
                                          extract_tenure(refname))[2])]

\* Labels for the label patch: with and without a fee token and a foreclosure
\* token, with the suffix of either duration, with a fee word run into
\* another word, with two fee words before the values, and with two
\* foreclosure tokens before the suffixes.
LabelTexts ==
    {LabelText,
     <<"Rupeek", " ", "6", "M", " ", "48", "%">>,
     <<"Rupeek", " ", "PF", " ", "2", ".", "50", "%", " ", "FC", " ", "120", "D">>,
     <<"Rupeek", " ", "fc", "-", "90", "D">>,
     <<"Rupeek", " ", "6", "M", " ", "FlexiPF", " ", "1", ".", "00", "%", " ", "FC">>,
     <<"Rupeek", " ", "PF", " ", "PF", " ", "1", "%", " ", "2", "%", " ", "FC">>,
     <<"Rupeek", " ", "FC", " ", "FC", " ", "90", "D", " ", "90", "D">>,
     <<"nan">>}

\* update_bs2_legal_name_pf_fc(updated_legal_name, fc_unsecure_value,
\* duration_months, has_pf_in_name) (lines 725-730), and the same call on the
\* label it returned
CallLabel ==
    /\ call = NoCall
    /\ \E text \in LabelTexts, pf_value \in {400, 938}, fc_duration_months \in {3, 4},
          has_pf_in_refname \in BOOLEAN :
          call' = [op   |-> "update_bs2_legal_name_pf_fc",
                   args |-> [text |-> text, pf_value |-> pf_value,
                             fc_duration_months |-> fc_duration_months,
                             has_pf_in_refname |-> has_pf_in_refname],
                   out  |-> [first  |-> update_bs2_legal_name_pf_fc(
                                            text, pf_value, fc_duration_months,
                                            has_pf_in_refname),
                             second |-> update_bs2_legal_name_pf_fc(
                                            update_bs2_legal_name_pf_fc(
                                                text, pf_value, fc_duration_months,
                                                has_pf_in_refname),
                                            pf_value, fc_duration_months,
                                            has_pf_in_refname)]]
    /\ UNCHANGED <<session_df, df, idx, pc, passes>>

\* Two Compute runs on a record: the second reads the identifier the first
\* one wrote (lines 731, 559, 564-585).
CallSecondPass ==
    /\ call = NoCall
    /\ \E refname \in PassIdentifiers :
          call' = [op   |-> "second_pass",
                   args |-> <<refname>>,
                   out  |-> [first  |-> PassOf(refname),
                             second |-> PassOf(PassOf(refname).refName)]]
    /\ UNCHANGED <<session_df, df, idx, pc, passes>>

NextFn ==
    \/ CallDecide
    \/ CallRate
    \/ CallFee
    \/ CallFeeDecision
    \/ CallForeclosure
    \/ CallResolve
    \/ CallSlabPatch
    \/ CallChargeText
    \/ CallFeeCharge
    \/ CallForeclosureCharge
    \/ CallSecondPass
    \/ CallLabel

SpecFn == InitFn /\ [][NextFn]_vars

\* -------------------------------------------------------------------------
\* Properties of the decision engine.
\* -------------------------------------------------------------------------

\* m hundredths is n/d rounded to two decimals, ties away from zero
\* (n >= 0 in hundredths, d > 0)
IsRound2(m, n, d) == 2 * d * m <= 2 * n + d /\ 2 * n + d < 2 * d * (m + 1)

\* No band exceeds 48.00 / 12.
BandRange == 0..400

\* The tier stated for decide(overallLtv, monthlyRate, requestedTerm)
StatedTier(overallLtv, monthlyRate, requestedTerm) ==
    LET threshold == IF requestedTerm = 12 THEN 60 ELSE 67
        u         == IF requestedTerm = 12 THEN 3765 ELSE 4800
        minBand   == CHOOSE m \in BandRange :
                         IsRound2(m, threshold * 995, 12 * overallLtv)
        maxBand   == CHOOSE m \in BandRange :
                         IsRound2(m, threshold * 995 + (overallLtv - threshold) * u,
                                  12 * overallLtv)
    IN  IF overallLtv <= threshold THEN "Royal"
        ELSE IF minBand * RATE_SCALE <= monthlyRate /\ monthlyRate <= maxBand * RATE_SCALE
        THEN "Delight"
        ELSE "Royal"

\* C1: with threshold 60 at term 12 and 67 otherwise, the tier is the
\* secondary one (Royal) whenever the LTV is at most the threshold; above it
\* the tier is the primary one (Delight) exactly when the monthly rate lies
\* in [minBand, maxBand], ends included, with
\* minBand = round2(secW * 9.95 / 12) and
\* maxBand = round2((secW * 9.95 + unsecW * u) / 12), u = 48.00 or 37.65 at
\* term 12; in every other case it is the secondary one.
C1_TierOfDecision ==
    call.op = "decision_engine" =>
        call.out[1] = StatedTier(call.args[1], call.args[2], call.args[3])

\* LTV 80 at term 6 with the rate on the upper end of the band, 1.34
C1_Witness ==
    /\ call.op = "decision_engine"
    /\ call.args = <<80, 134 * RATE_SCALE, 6>>
    /\ call.out[1] = "Delight"

\* C2: a primary-tier decision keeps the requested term; a secondary-tier
\* decision has final term 7 when 6 or 7 was requested and the requested
\* term otherwise, so no secondary-tier decision carries final term 6.
C2_FinalTerm ==
    call.op = "decision_engine" =>
        /\ call.out[1] \in {"Delight", "Royal"}
        /\ call.out[1] = "Delight" => call.out[2] = call.args[3]
        /\ call.out[1] = "Royal" =>
               /\ call.out[2] = IF call.args[3] \in {6, 7} THEN 7 ELSE call.args[3]
               /\ call.out[2] # 6

\* term 6 requested above the threshold with a rate out of the band
C2_Witness ==
    /\ call.op = "decision_engine"
    /\ call.args[1] > 67
    /\ call.args[3] = 6
    /\ call.out = <<"Royal", 7>>

\* -------------------------------------------------------------------------
\* Properties of the Compute loop.
\* -------------------------------------------------------------------------

\* the identifier of row k before the run yields no LTV code, no term or no
\* stated monthly rate
NotParsed(k) ==
    \/ ~HasLtv(CellText(session_df.rows[k]["refName"]))
    \/ ~HasTenure(CellText(session_df.rows[k]["refName"]))
    \/ ~HasOpp(CellText(session_df.rows[k]["refName"]))

StatedBasis(finalTerm) == IF finalTerm = 6 THEN 67 ELSE IF finalTerm = 7 THEN 66 ELSE 60

\* C4: for every LTV of the code table and every final term the decision
\* engine returns, the secured weight basis/overallLtv and the unsecured
\* weight (overallLtv - basis)/overallLtv of the rate engine are both
\* non-negative and sum to 1, with basis 67 for final term 6, 66 for final
\* term 7 and 60 otherwise.  The weights are stated by their numerators over
\* the positive overallLtv.
C4_WeightsNonNegative ==
    call.op = "interest_engine" =>
        /\ call.out.secure_ltv = StatedBasis(call.args[2])
        /\ call.out.secure_ltv >= 0
        /\ call.args[3] - call.out.secure_ltv >= 0
        /\ call.out.secure_ltv + (call.args[3] - call.out.secure_ltv) = call.args[3]

\* The blend tuple and the display tuple stated for a final term
StatedBlend(finalTerm) == IF finalTerm = 12 THEN <<3765, 3200, 3765>> ELSE <<4800, 4600, 4800>>

StatedDisplay(finalTerm) == IF finalTerm = 12 THEN <<3765, 3765, 3765>> ELSE <<4800, 4800, 4800>>

StatedSecuredSlab2(tier) == IF tier = "Delight" THEN 1700 ELSE 1850

\* The overall slabs stated for rate(tier, finalTerm, overallLtv, monthlyRate)
\* with securedSlab3 given: each is the weighted sum rounded to hundredths,
\* ties away from zero.
StatedSlabs(out, tier, finalTerm, overallLtv, monthlyRate, securedSlab3) ==
    /\ IsRound2(out.overall_slabs[1], monthlyRate * 12, RATE_SCALE)
    /\ IsRound2(out.overall_slabs[2],
                StatedBasis(finalTerm) * StatedSecuredSlab2(tier)
                  + (overallLtv - StatedBasis(finalTerm)) * StatedBlend(finalTerm)[2],
                overallLtv)
    /\ IsRound2(out.overall_slabs[3],
                StatedBasis(finalTerm) * securedSlab3
                  + (overallLtv - StatedBasis(finalTerm)) * StatedBlend(finalTerm)[3],
                overallLtv)

\* C5: for final terms 6, 7 and 12 the overall slab-1 is round2(monthlyRate
\* * 12), the overall slabs 2 and 3 are the rounded sums of the secured slab
\* weighted by basis/overallLtv and the blend slab weighted by the rest, with
\* secured slab-2 17.00 or 18.50 by tier, blend (48.00, 46.00, 48.00) or
\* (37.65, 32.00, 37.65) and basis 67 / 66 / 60; the unsecured document
\* receives the flat display tuple, never the blend tuple.
C5_RateSlabs ==
    (call.op = "interest_engine" /\ call.args[2] \in {6, 7, 12}) =>
        /\ StatedSlabs(call.out, call.args[1], call.args[2], call.args[3], call.args[4],
                       call.out.secure_slabs[3])
        /\ call.out.secure_slabs[2] = StatedSecuredSlab2(call.args[1])
        /\ call.out.unsecure_slabs = StatedDisplay(call.args[2])
        /\ call.out.unsecure_slabs # StatedBlend(call.args[2])

\* a tie in slab-1 (1.00125 * 12 = 12.015) on a Royal record of term 7
C5_Witness ==
    /\ call.op = "interest_engine"
    /\ call.args = <<"Royal", 7, 65, 100125>>
    /\ call.out.overall_slabs[1] = 1202
    /\ call.out.unsecure_slabs = <<4800, 4800, 4800>>

\* -------------------------------------------------------------------------
\* Properties of the fee back-calculation.
\* -------------------------------------------------------------------------

\* m hundredths is n/d rounded to two decimals, ties away from zero, for a
\* quotient of either sign (d # 0, n >= 0)
IsRound2Signed(m, n, d) == IF d > 0 THEN IsRound2(m, n, d) ELSE IsRound2(-m, n, -d)

\* The bound the point value is derived from: the upper one when the stated
\* bounds differ or the override is on, the lower one otherwise
StatedBound(min_pf_input, max_pf_input, force_flexi_mode) ==
    IF min_pf_input # max_pf_input \/ force_flexi_mode THEN max_pf_input ELSE min_pf_input

\* C6: the fee point value written into the fee charge is
\* round2(maxBound / denominator) when the stated bounds differ or the global
\* override forces flexi mode and round2(minBound / denominator) otherwise,
\* with denominator = 1 - securedLtvBasis / overallLtv, that is
\* bound * overallLtv / (overallLtv - securedLtvBasis).
C6_FeePointValue ==
    call.op \in {"fee", "fee_decision"} =>
        IsRound2Signed(call.out.charge_pf_value,
                       StatedBound(call.args.min_pf_input, call.args.max_pf_input,
                                   call.args.force_flexi_mode) * call.args.overall_ltv,
                       (call.args.overall_ltv - call.args.secure_ltv) * RATE_SCALE)

\* -------------------------------------------------------------------------
\* Properties of the foreclosure lookup.  The identifiers of the lookup start
\* with their scheme code, if they have one.
\* -------------------------------------------------------------------------

NamesVariant(refname) == \E i \in 1..Len(refname) : refname[i] \in {"economy", "silver"}

InGroupSet(refname) == refname[1] \in {"s2", "s4", "s5", "s7"}

InESeries(refname) == refname[1] \in {"e0", "e1", "e2", "e4"}

\* C7: the foreclosure lookup returns, for every combination of scheme code
\* (group set, e-series set, neither, absent), variant, final term and ticket
\* bucket, one (percent, duration) pair with duration 3 or 4; when the
\* variant is absent or the scheme code is in neither set, the pair is
\* (1.00, 3).
C7_ForeclosureTotal ==
    call.op = "get_foreclosure_terms" =>
        /\ Len(call.out) = 2
        /\ call.out[1] \in Nat
        /\ call.out[2] \in {3, 4}
        /\ (~NamesVariant(call.args[1])
            \/ ~(InGroupSet(call.args[1]) \/ InESeries(call.args[1])))
              => call.out = <<100, 3>>

\* a variant with a scheme code of neither set, at term 12 and ticket below 3L
C7_Witness ==
    /\ call.op = "get_foreclosure_terms"
    /\ call.args[1][1] = "s6"
    /\ NamesVariant(call.args[1])
    /\ extract_ts_bucket(call.args[1]) = "<6L"
    /\ call.args[2] = 12
    /\ call.out = <<100, 3>>

\* The pair of every e-series identifier of the lookup with the ticket bucket
\* of refname and a variant among those allowed, at every final term, is pair
ESeriesAgree(refname, pair, withoutVariant) ==
    \A other \in ForeclosureIdentifiers, final_tenure \in Terms :
        (/\ InESeries(other)
         /\ withoutVariant \/ NamesVariant(other)
         /\ extract_ts_bucket(other) = extract_ts_bucket(refname))
            => get_foreclosure_terms(other, final_tenure) = pair

\* C8 as stated: two e-series identifiers with the same ticket bucket get the
\* same pair whatever their variant (economy, silver or absent) and whatever
\* their final term.
C8_ESeriesAnyVariant ==
    (call.op = "get_foreclosure_terms" /\ InESeries(call.args[1])) =>
        ESeriesAgree(call.args[1], call.out, TRUE)

\* C8: two e-series identifiers that name a variant (economy or silver) and
\* have the same ticket bucket get the same pair whatever their final term;
\* an e-series identifier without a variant gets (1.00, 3) whatever its
\* ticket bucket.
C8_ESeriesByBucket ==
    (call.op = "get_foreclosure_terms" /\ InESeries(call.args[1])) =>
        IF NamesVariant(call.args[1])
        THEN ESeriesAgree(call.args[1], call.out, FALSE)
        ELSE call.out = <<100, 3>>

\* an e-series identifier with a variant and a ticket below 3L, at term 12
C8_Witness ==
    /\ call.op = "get_foreclosure_terms"
    /\ InESeries(call.args[1])
    /\ NamesVariant(call.args[1])
    /\ extract_ts_bucket(call.args[1]) = "<6L"
    /\ call.args[2] = 12
    /\ call.out = <<150, 3>>

\* -------------------------------------------------------------------------
\* Properties of the process resolution.
\* -------------------------------------------------------------------------

\* The number of positions of ps that hold tag
Occurrences(ps, tag) == Cardinality({k \in 1..Len(ps) : ps[k] = tag})

\* C9: for every identifier that reaches the resolver, on the
\* priority-keyword path and on the fallback path alike, the process list
\* contains "release" exactly once and no tag twice.
C9_ReleaseOnce ==
    call.op = "resolve" =>
        /\ Occurrences(call.out.applicable_processes, "release") = 1
        /\ \A k \in 1..Len(call.out.applicable_processes) :
              Occurrences(call.out.applicable_processes,
                          call.out.applicable_processes[k]) = 1

\* The text holds one of the fresh/takeover keywords of the priority scan
HasFreshTakeoverForm(t) ==
    KeywordIn(t, "fl to") \/ KeywordIn(t, "fresh") \/ KeywordIn(t, "takeover")

\* C10: the priority scan takes the first keyword found in the order
\* fresh/takeover short form, "fresh", "takeover", "renewal": an identifier
\* holding a fresh/takeover form resolves to {fresh-loan, takeover-loan} with
\* label "FL TO" wherever "renewal" may sit in it, and one holding "renewal"
\* and no fresh/takeover form to {renewal} with label "RWL".
C10_PriorityOrder ==
    call.op = "resolve" =>
        /\ HasFreshTakeoverForm(call.args[1]) =>
              call.out = [applicable_processes |-> <<"fresh-loan", "takeover-loan">>,
                          description_value |-> "FL TO"]
        /\ (KeywordIn(call.args[1], "renewal") /\ ~HasFreshTakeoverForm(call.args[1])) =>
              call.out = [applicable_processes |-> <<"renewal">>,
                          description_value |-> "RWL"]

\* "renewal" ahead of "fresh" in the text
C10_Witness ==
    /\ call.op = "resolve"
    /\ call.args[1][3] = "renewal"
    /\ call.args[1][5] = "fresh"
    /\ call.out.description_value = "FL TO"
    /\ call.out.applicable_processes = <<"fresh-loan", "takeover-loan">>

\* A fresh/takeover phrase (FL TO, FLTO, fresh, take over, takeover) occurs in
\* the text
FreshTakeoverPhrase(t) ==
    \E i \in 1..Len(t) :
        \/ FlToAt(t, i)
        \/ WordAt(t, i, "flto")
        \/ WordAt(t, i, "fresh")
        \/ TakeOverAt(t, i)
        \/ WordAt(t, i, "takeover")

\* A renewal/retention phrase occurs in the text
RenewalPhrase(t) == \E i \in 1..Len(t) : WordAt(t, i, "renewal") \/ WordAt(t, i, "retention")

\* No keyword of the priority scan occurs in the text
NoPriorityKeyword(t) == ~HasFreshTakeoverForm(t) /\ ~KeywordIn(t, "renewal")

\* The accumulated set, before "release" is appended
Accumulated(out) == Range(out.applicable_processes) \ {"release"}

\* C11: on the fallback path {fresh-loan, takeover-loan} is added only if a
\* fresh/takeover phrase matches the identifier and {renewal} only if a
\* renewal/retention phrase matches; when neither matches the accumulated set
\* is just {fresh-loan}; an identifier matching only a retention phrase
\* yields a renewal-only set whose label is "RWL".
C11_FallbackAccumulation ==
    (call.op = "resolve" /\ NoPriorityKeyword(call.args[1])) =>
        /\ "takeover-loan" \in Accumulated(call.out) => FreshTakeoverPhrase(call.args[1])
        /\ "renewal" \in Accumulated(call.out) => RenewalPhrase(call.args[1])
        /\ (~FreshTakeoverPhrase(call.args[1]) /\ ~RenewalPhrase(call.args[1]))
              => Accumulated(call.out) = {"fresh-loan"}
        /\ (~FreshTakeoverPhrase(call.args[1]) /\ RenewalPhrase(call.args[1]))
              => /\ Accumulated(call.out) = {"renewal"}
                 /\ call.out.description_value = "RWL"

\* -------------------------------------------------------------------------
\* Properties of the slab patch.
\* -------------------------------------------------------------------------

\* The day boundary stated for a term
StatedDays(term) ==
    IF term = 6 THEN 180 ELSE IF term = 7 THEN 210 ELSE IF term = 12 THEN 360 ELSE term * 30

\* The fields of element i the patch of a list of n elements may change,
\* when it rates the first m
PatchedFields(i, m, n) ==
    (IF i <= m THEN {"interestRate"} ELSE {}) \cup (IF i = n THEN {"toDay"} ELSE {})

\* The object o without the fields of keys
RECURSIVE Without(_, _)
Without(o, keys) ==
    IF keys = {} THEN o
    ELSE LET key == CHOOSE x \in keys : TRUE
         IN  Without(Pop(o, key), keys \ {key})

\* The list after is the list before with the rate of the first m elements
\* set to the schedule, the day boundary of the last set to days, and nothing
\* else changed
SlabsPatched(before, after, slabs, m, days) ==
    /\ Len(after) = Len(before)
    /\ \A i \in 1..Len(before) :
          /\ IsDict(after[i])
          /\ Without(after[i], PatchedFields(i, m, Len(before)))
               = Without(before[i], PatchedFields(i, m, Len(before)))
          /\ i <= m => /\ HasKey(after[i], "interestRate")
                       /\ Get(after[i], "interestRate") = JNum(slabs[i])
          /\ i = Len(before) => /\ HasKey(after[i], "toDay")
                                /\ Get(after[i], "toDay") = JNum(days * 100)

\* The document has a slab list of three or more elements, all objects
HasSlabList(data) ==
    /\ find_slab_list(data).found
    /\ Len(GetAt(data, find_slab_list(data).path).v) >= 3
    /\ \A i \in 1..Len(GetAt(data, find_slab_list(data).path).v) :
          IsDict(GetAt(data, find_slab_list(data).path).v[i])

\* The patched document is the document with its slab list patched
DocumentPatched(data, out, path, slabs, final_tenure) ==
    /\ ~out.raised
    /\ Parses(out.cell)
    /\ SetAt(out.cell.v, path, GetAt(data, path)) = data
    /\ SlabsPatched(GetAt(data, path).v, GetAt(out.cell.v, path).v, slabs,
                    Min(3, Min(Len(GetAt(data, path).v), Len(slabs))),
                    StatedDays(final_tenure))

\* C12: the slab patch on a document whose slab list has n >= 3 object
\* elements, with k supplied slabs, changes exactly the rate field of the
\* first min(3, n, k) elements and the day-boundary field of the last one
\* (180 / 210 / 360 for term 6 / 7 / 12, else term * 30) and nothing else in
\* the document; a parseable document with no matching list and no
\* slab-shaped root is returned with the same value.
C12_SlabPatchFrame ==
    (call.op = "update_interest_json" /\ Parses(call.args.json_str)) =>
        /\ HasSlabList(call.args.json_str.v) =>
              DocumentPatched(call.args.json_str.v, call.out,
                              find_slab_list(call.args.json_str.v).path,
                              call.args.slabs, call.args.final_tenure)
        /\ (/\ ~find_slab_list(call.args.json_str.v).found
            /\ ~(IsDict(call.args.json_str.v) /\ HasKey(call.args.json_str.v, "interestRate")))
              => /\ ~call.out.raised
                 /\ Parses(call.out.cell)
                 /\ call.out.cell.v = call.args.json_str.v

\* a list of four elements under its key, three slabs supplied, term 7: the
\* third element gains a rate, the fourth keeps its rate and gets 210 days
C12_Witness ==
    /\ call.op = "update_interest_json"
    /\ Parses(call.args.json_str)
    /\ call.args.json_str.v = JObj(<< <<"id", JStr("x")>>, <<"interestSlabs", FourSlabs>>, <<"active", JNull>> >>)
    /\ call.args.slabs = <<1440, 2171, 2792>>
    /\ call.args.final_tenure = 7
    /\ ~call.out.raised
    /\ Get(call.out.cell.v, "interestSlabs").v[3]
          = JObj(<< <<"toDay", JNum(9000)>>, <<"interestRate", JNum(2792)>> >>)
    /\ Get(call.out.cell.v, "interestSlabs").v[4] = NotedSlab(2500, 21000, "d")

\* The list qualifies as stated: its elements are all objects, and it is keyed
\* interestSlabs or one of its elements has a rate field
QualifiesAsStated(node, keyed) ==
    /\ IsList(node)
    /\ \A i \in 1..Len(node.v) : IsDict(node.v[i])
    /\ keyed \/ \E i \in 1..Len(node.v) : HasKey(node.v[i], "interestRate")

\* The first qualifying list of a depth-first traversal, object values before
\* list elements: its path, if there is one
RECURSIVE StatedSlabList(_, _)
RECURSIVE StatedInChildren(_, _)
StatedInChildren(node, i) ==
    IF i > Len(node.v) THEN NotFound
    ELSE LET r == StatedSlabList(Child(node, i),
                                 IsDict(node) /\ node.v[i][1] = "interestSlabs")
         IN  IF r.found THEN [found |-> TRUE, path |-> <<i>> \o r.path]
             ELSE StatedInChildren(node, i + 1)

StatedSlabList(node, keyed) ==
    IF QualifiesAsStated(node, keyed) THEN [found |-> TRUE, path |-> <<>>]
    ELSE IF IsDict(node) \/ IsList(node) THEN StatedInChildren(node, 1)
    ELSE NotFound

\* The patch has acted on the stated list of the document and on nothing else;
\* without a stated list (or with an empty one) no list is patched
PatchedAsStated(data, out, stated, slabs, final_tenure) ==
    IF stated.found /\ GetAt(data, stated.path).v # <<>>
    THEN DocumentPatched(data, out, stated.path, slabs, final_tenure)
    ELSE /\ ~out.raised
         /\ Parses(out.cell)
         /\ ~(IsDict(data) /\ HasKey(data, "interestRate")) => out.cell.v = data

\* C13: the list patched by the slab patch is the first list, in a
\* depth-first traversal visiting object values before list elements, whose
\* elements are all objects and which is keyed interestSlabs or has an
\* element with an interestRate field, whatever its length; a list with an
\* element that is not an object is never selected.
C13_ListSelected ==
    (call.op = "update_interest_json" /\ Parses(call.args.json_str)) =>
        PatchedAsStated(call.args.json_str.v, call.out,
                        StatedSlabList(call.args.json_str.v, FALSE),
                        call.args.slabs, call.args.final_tenure)

\* -------------------------------------------------------------------------
\* Properties of the document operations on malformed targets.
\* -------------------------------------------------------------------------

\* The cell after holds the document the cell before held
SameDocument(before, after) ==
    IF Parses(before) THEN Parses(after) /\ after.v = before.v ELSE after = before

\* An interestSlabs list with an element that is not an object
HoldsNonObjectSlabs(data) ==
    /\ IsDict(data)
    /\ HasKey(data, "interestSlabs")
    /\ IsList(Get(data, "interestSlabs"))
    /\ \E i \in 1..Len(Get(data, "interestSlabs").v) : ~IsDict(Get(data, "interestSlabs").v[i])

\* The target of the operation is not parseable, or lacks the expected shape
MalformedTarget(op, json_str) ==
    \/ ~Parses(json_str)
    \/ op \in {"update_charge_text", "update_bs2_charge_2"} /\ ~IsDict(json_str.v)
    \/ op = "update_interest_json" /\ HoldsNonObjectSlabs(json_str.v)

\* C14: no document operation (slab patch, fee text, fee charge) raises on a
\* malformed target: a field that is not parseable JSON, or is JSON without
\* the expected shape, is returned unchanged.
C14_MalformedUnchanged ==
    (/\ call.op \in {"update_interest_json", "update_charge_text", "update_bs2_charge_2"}
     /\ MalformedTarget(call.op, call.args.json_str)) =>
        /\ ~call.out.raised
        /\ SameDocument(call.args.json_str, call.out.cell)

\* -------------------------------------------------------------------------
\* Properties of the Compute loop across records.
\* -------------------------------------------------------------------------

\* Record k of the table of the session processed as the only record of a
\* table with the same columns
ProcessedAlone(k) ==
    ProcessRow([rows |-> <<session_df.rows[k]>>, cols |-> session_df.cols], 1)

\* C15: records are independent: processing one record changes no field of
\* any other record, and the final value of every field of a record is the
\* one it gets when it is processed without the others: during the loop a
\* record already processed holds what it would hold alone and a record not
\* yet processed holds what it held before the run, and a run does not end
\* early because of another record.
C15_RecordsIndependent ==
    /\ pc = "loop" =>
          \A k \in 1..Len(df.rows) :
              IF k < idx
              THEN ~ProcessedAlone(k).raised /\ df.rows[k] = ProcessedAlone(k).rows[1]
              ELSE df.rows[k] = session_df.rows[k]
    /\ pc = "raised" =>
          \A k \in 1..Len(session_df.rows) : ProcessedAlone(k).raised

\* -------------------------------------------------------------------------
\* Properties of a second pass.
\* -------------------------------------------------------------------------

\* C16: the second pass is a fixed point for the identifier: run again on the
\* record it produced, the pipeline returns the same tier and the same final
\* term as the first pass and leaves the identifier, whose term token already
\* is the final term, as it is; for every LTV code, rate and requested term.
C16_SecondPassFixedPoint ==
    call.op = "second_pass" =>
        /\ ~call.out.first.skipped
        /\ ~call.out.second.skipped
        /\ call.out.second.decision = call.out.first.decision
        /\ extract_tenure(call.out.first.refName) = call.out.first.decision[2]
        /\ call.out.second.refName = call.out.first.refName

\* a requested term of 6 written "6 M", normalised to 7 by the first pass
C16_Witness ==
    /\ call.op = "second_pass"
    /\ call.args[1][3] = "6"
    /\ call.args[1][4] = " "
    /\ call.out.first.decision = <<"Royal", 7>>
    /\ call.out.first.refName # call.args[1]
    /\ call.out.first.refName[3] = "7"
    /\ call.out.first.refName[4] = "M"
    /\ call.out.second.decision = <<"Royal", 7>>

\* -------------------------------------------------------------------------
\* Properties of the optional fields.
\* -------------------------------------------------------------------------

\* The fields a record may or may not have: all but the identifier and the
\* LTV and final term written for every record
OptionalFields == AllColumns \ {"refName", "customerLtv", "tenure"}

\* The cell holds the empty JSON object
IsEmptyObject(c) == Parses(c) /\ c.v = JObj(<<>>)

\* Record k was processed by the run under way: the loop is past it and its
\* identifier passed the guard
Processed(k) == k < idx /\ ~InvalidRefname(CellText(session_df.rows[k]["refName"]))

\* C17: after a record is processed, its fee-charge field is an empty object
\* when the identifier declares no fee; the foreclosure-charge field exists,
\* created if the record had none; and no other optional field the record did
\* not have is created.
C17_OptionalFields ==
    pc = "loop" =>
        \A k \in 1..Len(df.rows) :
            Processed(k) =>
                /\ (/\ ~has_pf_in_name(CellText(session_df.rows[k]["refName"]))
                    /\ "bs2-charge-2" \in df.cols)
                      => IsEmptyObject(df.rows[k]["bs2-charge-2"])
                /\ "bs2-charge-3" \in df.cols
                /\ (df.cols \ session_df.cols) \cap OptionalFields \subseteq {"bs2-charge-3"}

\* -------------------------------------------------------------------------
\* Properties of the charge patches.
\* -------------------------------------------------------------------------

\* The document has the key with the value
Holds(o, key, val) == HasKey(o, key) /\ Get(o, key) = val

\* The document carries a metadata object with the two unsecured percentages
FlexiMetadata(o, backcalc_min, backcalc_max) ==
    /\ HasKey(o, "chargesMetaData")
    /\ IsDict(Get(o, "chargesMetaData"))
    /\ Holds(Get(o, "chargesMetaData"), "minPercentUnsecure", JNum(backcalc_min))
    /\ Holds(Get(o, "chargesMetaData"), "maxPercentUnsecure", JNum(backcalc_max))

\* The document carries the three descriptors of a fixed fee
FixedDescriptors(o) ==
    /\ Holds(o, "chargeCalculationType", JStr("fixed-percentage"))
    /\ Holds(o, "chargeType", JStr("processing-fee"))
    /\ Holds(o, "percentageOn", JStr("loanamount"))

\* C18: the fee-charge patch returns an object whose chargeValue is the point
\* value supplied; for a flexi record the object has a chargesMetaData object
\* with the min and max unsecured percentages; for any other record it has the
\* fixed-percentage, processing-fee and loanamount descriptors and no
\* chargesMetaData, whatever the input held.
C18_FeeChargePatch ==
    call.op = "update_bs2_charge_2" =>
        /\ ~call.out.raised
        /\ Parses(call.out.cell)
        /\ IsDict(call.out.cell.v)
        /\ Holds(call.out.cell.v, "chargeValue", JNum(call.args.charge_value))
        /\ call.args.is_flexi =>
              FlexiMetadata(call.out.cell.v, call.args.backcalc_min, call.args.backcalc_max)
        /\ ~call.args.is_flexi =>
              /\ FixedDescriptors(call.out.cell.v)
              /\ ~HasKey(call.out.cell.v, "chargesMetaData")

\* A record that is not flexi whose document came with a metadata object is
\* patched, and the result has none
C18_Witness ==
    /\ call.op = "update_bs2_charge_2"
    /\ ~call.args.is_flexi
    /\ Parses(call.args.json_str)
    /\ IsDict(call.args.json_str.v)
    /\ HasKey(call.args.json_str.v, "chargesMetaData")
    /\ IsDict(Get(call.args.json_str.v, "chargesMetaData"))
    /\ call.args.charge_value = 280
    /\ ~HasKey(call.out.cell.v, "chargesMetaData")

\* The keys of an object
KeysOf(o) == {o.v[i][1] : i \in 1..Len(o.v)}

\* The fields the foreclosure patch normalizes, the metadata apart
NormalizedKeys ==
    {"name", "chargeType", "chargeCalculationType", "percentageOn", "maxValue", "minValue",
     "cityId", "applicableProcesses", "chargeValue"}

\* The object has the normalized fields with their fixed values, the computed
\* value and the processes, and a metadata object with the duration
Normalized(o, args) ==
    /\ Holds(o, "name", JStr("Foreclosure"))
    /\ Holds(o, "chargeType", JStr("foreclosure"))
    /\ Holds(o, "chargeCalculationType", JStr("fixed-percentage"))
    /\ Holds(o, "percentageOn", JStr("loanamount"))
    /\ Holds(o, "maxValue", JNum(10000000))
    /\ Holds(o, "minValue", JNum(99900))
    /\ Holds(o, "cityId", JNull)
    /\ Holds(o, "applicableProcesses", JStrList(args.applicable_processes))
    /\ Holds(o, "chargeValue", JNum(args.foreclosure_unsecure_value))
    /\ HasKey(o, "chargesMetaData")
    /\ IsDict(Get(o, "chargesMetaData"))
    /\ Holds(Get(o, "chargesMetaData"), "duration", JNum(args.duration_months * 100))

\* Every field of before but those named is in after with the same value,
\* and after has no field beyond those of before and those named
FrameKept(before, after, named) ==
    /\ KeysOf(after) = KeysOf(before) \cup named
    /\ \A key \in KeysOf(before) \ named : Get(after, key) = Get(before, key)

\* The metadata of the input, or the empty object when it has none that is
\* an object
MetadataOf(o) ==
    IF HasKey(o, "chargesMetaData") /\ IsDict(Get(o, "chargesMetaData"))
    THEN Get(o, "chargesMetaData") ELSE JObj(<<>>)

\* C19: the foreclosure-charge patch of an object sets the normalized fields
\* (name, chargeType, chargeCalculationType, percentageOn, maxValue, minValue,
\* cityId, applicableProcesses, chargeValue, and duration in chargesMetaData)
\* and keeps every other field of the object and every other key of its
\* metadata; the patch of an empty, unparseable or non-object document gives
\* the template with the value, the duration and the processes filled in.
C19_ForeclosureFrame ==
    call.op = "update_foreclosure_charge" =>
        /\ ~call.out.raised
        /\ Parses(call.out.cell)
        /\ IsDict(call.out.cell.v)
        /\ Normalized(call.out.cell.v, call.args)
        /\ IF Parses(call.args.json_str) /\ IsDict(call.args.json_str.v)
           THEN /\ FrameKept(call.args.json_str.v, call.out.cell.v,
                             NormalizedKeys \cup {"chargesMetaData"})
                /\ FrameKept(MetadataOf(call.args.json_str.v),
                             Get(call.out.cell.v, "chargesMetaData"), {"duration"})
           ELSE /\ KeysOf(call.out.cell.v) = KeysOf(ForeclosureTemplate)
                /\ KeysOf(Get(call.out.cell.v, "chargesMetaData")) = {"duration"}

\* An object with a field and a metadata key of its own is patched with a
\* duration other than the one it held, and both are kept
C19_Witness ==
    /\ call.op = "update_foreclosure_charge"
    /\ Parses(call.args.json_str)
    /\ IsDict(call.args.json_str.v)
    /\ Holds(call.args.json_str.v, "id", JNum(700))
    /\ HasKey(call.args.json_str.v, "chargesMetaData")
    /\ IsDict(Get(call.args.json_str.v, "chargesMetaData"))
    /\ Holds(Get(call.args.json_str.v, "chargesMetaData"), "note", JStr("x"))
    /\ call.args.duration_months = 3
    /\ Holds(call.out.cell.v, "id", JNum(700))
    /\ Holds(Get(call.out.cell.v, "chargesMetaData"), "note", JStr("x"))
    /\ Holds(Get(call.out.cell.v, "chargesMetaData"), "duration", JNum(300))

\* -------------------------------------------------------------------------
\* Properties of the label patch.
\* -------------------------------------------------------------------------

\* The label has a foreclosure token followed by the days and "D"
FcFollowedBy(t, days) ==
    \E i \in 1..Len(t) :
        FcWordAt(t, i) /\ At(t, i + 1) = SPACE /\ At(t, i + 2) = days /\ At(t, i + 3) = "D"

\* The label has a fee word followed by a percentage
HasFeeToken(t) == \E i \in 1..Len(t) : PfTokenEnd(t, i) # 0

\* C20: the patched label has a foreclosure token followed by 90D for a
\* duration of 3 months and by 120D for 4; the patch of the patched label,
\* with the same arguments, is the patched label; and the patched label has a
\* fee-percentage token only if the identifier declared a fee.
C20_LabelPatch ==
    call.op = "update_bs2_legal_name_pf_fc" =>
        /\ call.args.fc_duration_months = 3 => FcFollowedBy(call.out.first, "90")
        /\ call.args.fc_duration_months = 4 => FcFollowedBy(call.out.first, "120")
        /\ call.out.second = call.out.first
        /\ HasFeeToken(call.out.first) => call.args.has_pf_in_refname

====
